---- MODULE Spec2Model ----
(***************************************************************************)
(* A model of the chat application's client components and of the          *)
(* document store they share:                                              *)
(*   - DashboardPage: the conversations listener, startConversation and    *)
(*     createGroup;                                                        *)
(*   - ChatInterface: the messages listener, sendMessage and the group     *)
(*     management handlers working on the groupInfo fetched on open;       *)
(*   - GroupChatInterface: sendMessage, which writes the message and then  *)
(*     the group's lastMessage in two separate store writes.               *)
(* Every client is one signed-in user.  The store applies each single      *)
(* write atomically; a client sees other clients' writes only through its  *)
(* listeners and fetches.                                                  *)
(***************************************************************************)
EXTENDS Integers, Sequences, FiniteSets

\* ------------------------------------------------------------- bounds ----

\* The users (one client each), the document ids the store can hand out.
Users == {"u1", "u2", "u3"}
ConvIds == <<"c1", "c2">>
GroupIds == {"g1"}

\* The Messages collection holds at most MaxMsgs documents.
MaxMsgs == 2
\* A group's messages subcollection holds at most MaxGroupMsgs documents.
MaxGroupMsgs == 2
\* The wall clock runs from 1 to MaxTime.
MaxTime == 2
\* A client clock reads within MaxSkew ticks of the server's.
MaxSkew == 1

\* What a user can type: text as a sequence of characters.
TextInputs == { <<" ">>, <<"h", "i">>, <<" ", "y", "o", " ">> }
\* Group names a user can type.
NameInputs == { <<" ">>, <<"g">> }

\* ------------------------------------------------------------ helpers ----

Range(s) == { s[i] : i \in DOMAIN s }

\* String.prototype.trim: drop leading and trailing white space.
RECURSIVE TrimLeft(_)
TrimLeft(s) == IF s # <<>> /\ Head(s) = " " THEN TrimLeft(Tail(s)) ELSE s

RECURSIVE TrimRight(_)
TrimRight(s) ==
  IF s # <<>> /\ s[Len(s)] = " " THEN TrimRight(SubSeq(s, 1, Len(s) - 1)) ELSE s

Trim(s) == TrimRight(TrimLeft(s))

\* Array.prototype.filter(id => id !== x)
RECURSIVE FilterOut(_, _)
FilterOut(s, x) ==
  IF s = <<>> THEN <<>>
  ELSE IF Head(s) = x THEN FilterOut(Tail(s), x)
       ELSE <<Head(s)>> \o FilterOut(Tail(s), x)

\* Array.from(set): the elements of a set, once each, in a fixed order.
RECURSIVE SetToSeq(_)
SetToSeq(S) ==
  IF S = {} THEN <<>>
  ELSE LET x == CHOOSE y \in S : TRUE IN <<x>> \o SetToSeq(S \ {x})

\* Array.prototype.includes
Includes(s, x) == x \in Range(s)

\* ------------------------------------------------------------- state -----

VARIABLES
  Conversations,         \* store: the Conversations collection, id -> document
  Messages,              \* store: the Messages collection, in order of creation
  now,                   \* the wall clock (the server's)
  conversations,         \* DashboardPage state: the ids of the last snapshot
  selectedConversation,  \* DashboardPage state: <<>> or <<id>>
  messages,              \* ChatInterface state: the list last set by the listener
  Groups,                \* store: the Groups collection, id -> document
  groupMessages,         \* store: Groups/{id}/messages, in order of creation
  selectedGroup,         \* DashboardPage state: <<>> or <<id>>
  group,                 \* GroupChatInterface state: <<>> or <<id>> once fetched
  sending,               \* GroupChatInterface.sendMessage: <<>> or <<the write in flight>>
  groupInfo,             \* ChatInterface state: <<>> or <<the group as fetched>>
  groupMembers,          \* ChatInterface state: the members the Group Info modal lists
  availableUsers,        \* ChatInterface state: the users the Add Members modal lists
  selectedUsersToAdd,    \* ChatInterface state: the users ticked in that list
  showGroupInfo,         \* ChatInterface state: the Group Info modal is open
  showAddMembers,        \* ChatInterface state: the Add Members modal is open
  deletedMessages,       \* ids of the Messages documents that have been deleted
  editingMessage,        \* ChatInterface state: <<id>> of the message being edited
  editText,              \* ChatInterface state: the text of the edit input
  selectedMessages,      \* ChatInterface state: the ids of the messages ticked
  replyingTo,            \* ChatInterface state: <<id>> of the message replied to
  forwarding,            \* ChatInterface state: <<id>> of the message forwarded
  account,               \* Firebase Auth: the account of each user (auth.currentUser)
  displayName,           \* DashboardPage state: the display name input of the settings tab
  email,                 \* DashboardPage state: the email input
  password,              \* DashboardPage state: the new password input
  updating,              \* handleUpdateProfile: <<>> or <<the call in flight>>
  alerted,               \* the text of the last alert() of the page
  General,               \* store: the ids of the documents of the General collection
  Admins,                \* store: the ids of the documents of the Admins collection
  currentUser,           \* Firebase Auth of the browser: <<>> or <<uid>> signed in
  authEvents,            \* auth state changes not yet delivered to onAuthStateChanged
  firebaseUser,          \* AuthProvider state: <<>> or <<uid>>
  authUser,              \* AuthProvider state `user`: <<>> or <<[id, role]>>
  fetches,               \* AuthProvider: the callbacks waiting for a getDoc
  signingIn,             \* LoginPage.handleSignIn: <<>> or <<the call in flight>>
  otherParticipant,      \* ChatInterface state: <<>> or <<[id, role]>>
  groupMemberProfiles,   \* ChatInterface state: groupMembers as [id, role] records
  groupForm,             \* DashboardPage state: newGroupName, selectedUsersForGroup
  snapshot,              \* messages listener: <<>> or <<the last snapshot delivered>>
  enriching,             \* messages listener: the callbacks waiting for fetchRelatedMessages
  groupChatMessages,     \* GroupChatInterface state: the list last set by its listener
  loginPage,             \* LoginPage state: userType, email, password, displayName,
                         \* loading, error, and the tab shown
  signingUp,             \* <<>> or <<the call of handleSignUp in flight>>
  registered             \* the accounts createUserWithEmailAndPassword has created

convVars == <<Conversations, Messages, now, conversations, selectedConversation,
              messages>>
groupChatVars == <<groupMessages, selectedGroup, group, sending>>
addVars == <<availableUsers, selectedUsersToAdd>>
modalVars == <<showGroupInfo, showAddMembers>>
menuVars == <<editingMessage, editText, selectedMessages, replyingTo, forwarding>>
messageVars == <<deletedMessages, menuVars>>
memberVars == <<groupInfo, groupMembers, addVars, modalVars>>
listenerVars == <<snapshot, enriching>>
chatVars == <<convVars, Groups, groupChatVars, messageVars, memberVars,
              listenerVars, groupChatMessages>>
profileVars == <<account, displayName, email, password, updating, alerted>>
signUpVars == <<loginPage, signingUp, registered>>
directoryVars == <<General, Admins, signUpVars>>
authVars == <<currentUser, authEvents, firebaseUser, authUser, fetches, signingIn>>
lookupVars == <<otherParticipant, groupMemberProfiles>>
besideProfile == <<directoryVars, authVars, lookupVars>>
besideChat == <<profileVars, besideProfile>>
\* The state of the pages and providers beside the chat components.
sideVars == <<profileVars, besideProfile, groupForm>>
vars == <<chatVars, sideVars>>

\* The Create Group form as it is reset: setNewGroupName(""),
\* setSelectedUsersForGroup(new Set()).
EmptyGroupForm == [ newGroupName |-> <<>>, selectedUsersForGroup |-> {} ]

\* The account a user signed up with: display name, email and password.
InitialAccount(u) ==
  [ displayName |-> <<"n", u>>, email |-> <<"e", u>>, password |-> <<"p", "1">> ]

\* The browser with nobody signed in, after the first call of
\* onAuthStateChanged (with null), and the lookups not yet made.
InitAuth ==
  /\ currentUser = <<>>
  /\ authEvents = <<>>
  /\ firebaseUser = <<>>
  /\ authUser = <<>>
  /\ fetches = <<>>
  /\ signingIn = <<>>
  /\ otherParticipant = [u \in Users |-> <<>>]
  /\ groupMemberProfiles = [u \in Users |-> <<>>]

\* useState of LoginPage; the Tabs show defaultValue="signin".
InitialLoginPage ==
  [ userType |-> "general", email |-> "", password |-> "", displayName |-> "",
    loading |-> FALSE, error |-> "", tab |-> "signin" ]

\* The login page as mounted, and nobody signed up yet.
InitSignUp ==
  /\ loginPage = InitialLoginPage
  /\ signingUp = <<>>
  /\ registered = {}

\* The listeners of the chat components before their first snapshot.
InitListeners ==
  /\ snapshot = [u \in Users |-> <<>>]
  /\ enriching = [u \in Users |-> <<>>]
  /\ groupChatMessages = [u \in Users |-> <<>>]

Init ==
  /\ Conversations = <<>>
  /\ Messages = <<>>
  /\ now = 1
  /\ conversations = [u \in Users |-> {}]
  /\ selectedConversation = [u \in Users |-> <<>>]
  /\ messages = [u \in Users |-> <<>>]
  /\ Groups = <<>>
  /\ groupMessages = [g \in GroupIds |-> <<>>]
  /\ selectedGroup = [u \in Users |-> <<>>]
  /\ group = [u \in Users |-> <<>>]
  /\ sending = [u \in Users |-> <<>>]
  /\ groupInfo = [u \in Users |-> <<>>]
  /\ groupMembers = [u \in Users |-> <<>>]
  /\ availableUsers = [u \in Users |-> {}]
  /\ selectedUsersToAdd = [u \in Users |-> {}]
  /\ showGroupInfo = [u \in Users |-> FALSE]
  /\ showAddMembers = [u \in Users |-> FALSE]
  /\ deletedMessages = {}
  /\ editingMessage = [u \in Users |-> <<>>]
  /\ editText = [u \in Users |-> <<>>]
  /\ selectedMessages = [u \in Users |-> {}]
  /\ replyingTo = [u \in Users |-> <<>>]
  /\ forwarding = [u \in Users |-> <<>>]
  /\ account = [u \in Users |-> InitialAccount(u)]
  /\ displayName = [u \in Users |-> InitialAccount(u).displayName]
  /\ email = [u \in Users |-> InitialAccount(u).email]
  /\ password = [u \in Users |-> <<>>]
  /\ updating = [u \in Users |-> <<>>]
  /\ alerted = [u \in Users |-> ""]
  /\ General = Users
  /\ Admins = {}
  /\ InitAuth
  /\ groupForm = [u \in Users |-> EmptyGroupForm]
  /\ InitListeners
  /\ InitSignUp

\* ------------------------------------------------- the store's clock -----

\* Time passes.
Tick ==
  /\ now < MaxTime
  /\ now' = now + 1
  /\ UNCHANGED <<Conversations, Messages, conversations,
                 selectedConversation, messages, Groups, groupChatVars, messageVars,
                 memberVars>>
  /\ UNCHANGED <<sideVars, listenerVars, groupChatMessages>>

\* ------------------------------------------------------ DashboardPage ----

\* The ChatInterface of the clients in `users` is mounted anew or unmounted
\* (the chats tab is rendered only while it is the active tab, the
\* ChatInterface only while a conversation is selected): its useState values
\* are the initial ones.
Mount(users) ==
  /\ messages' = [u \in Users |-> IF u \in users THEN <<>> ELSE messages[u]]
  /\ editingMessage' =
       [u \in Users |-> IF u \in users THEN <<>> ELSE editingMessage[u]]
  /\ editText' = [u \in Users |-> IF u \in users THEN <<>> ELSE editText[u]]
  /\ selectedMessages' =
       [u \in Users |-> IF u \in users THEN {} ELSE selectedMessages[u]]
  /\ replyingTo' = [u \in Users |-> IF u \in users THEN <<>> ELSE replyingTo[u]]
  /\ forwarding' = [u \in Users |-> IF u \in users THEN <<>> ELSE forwarding[u]]
  /\ snapshot' = [u \in Users |-> IF u \in users THEN <<>> ELSE snapshot[u]]
  /\ enriching' = [u \in Users |-> IF u \in users THEN <<>> ELSE enriching[u]]

\* addDoc: the id of a new document of the Conversations collection (none
\* once the ids are used up).
FreshConvIds ==
  IF Cardinality(DOMAIN Conversations) < Len(ConvIds)
    THEN {ConvIds[Cardinality(DOMAIN Conversations) + 1]}
    ELSE {}

\* The conversations listener: where("participants", "array-contains", user.id).
ConversationsQuery(user) ==
  { id \in DOMAIN Conversations : Includes(Conversations[id].participants, user) }

\* onSnapshot callback of the conversations listener: setConversations.
ConversationsSnapshot(user) ==
  /\ conversations[user] # ConversationsQuery(user)
  /\ conversations' = [conversations EXCEPT ![user] = ConversationsQuery(user)]
  /\ UNCHANGED <<Conversations, Messages, now, selectedConversation,
                 messages, Groups, groupChatVars, messageVars, memberVars>>
  /\ UNCHANGED <<sideVars, listenerVars, groupChatMessages>>

\* A row of the conversations list of the chats tab, clicked outside select
\* mode: setSelectedConversation(conv.id).  A ChatInterface that is mounted
\* stays mounted and gets the new conversationId prop.
ConversationRow(user, conversationId) ==
  /\ conversationId \in conversations[user]
  /\ selectedConversation[user] # <<conversationId>>
  /\ selectedConversation' =
       [selectedConversation EXCEPT ![user] = <<conversationId>>]
  /\ IF selectedConversation[user] = <<>>
       THEN Mount({user})
       ELSE UNCHANGED <<messages, menuVars, listenerVars>>
  /\ UNCHANGED <<Conversations, Messages, now, conversations, Groups,
                 groupChatVars, memberVars, deletedMessages>>
  /\ UNCHANGED <<sideVars, groupChatMessages>>

\* conversations.find(conv => conv.participants.includes(otherUserId) &&
\*                            conv.participants.includes(user.id))
ExistingConversations(user, otherUserId) ==
  { id \in conversations[user] :
      /\ id \in DOMAIN Conversations
      /\ Includes(Conversations[id].participants, otherUserId)
      /\ Includes(Conversations[id].participants, user) }

\* The document startConversation writes.
NewConversation(user, otherUserId) ==
  [ participants |-> <<user, otherUserId>>,
    lastMessage |-> <<>>,
    unreadCount |-> [p \in {user, otherUserId} |-> 0],
    type |-> "direct" ]

\* startConversation(otherUserId), called from the users' lists (which leave
\* out the signed-in user).  The check for an existing conversation and the
\* addDoc run in one turn of the client; the write reaches the client's own
\* listener, like every other client's, with the next snapshot.
startConversation(user, otherUserId) ==
  /\ otherUserId # user
  /\ IF ExistingConversations(user, otherUserId) # {}
       THEN /\ \E id \in ExistingConversations(user, otherUserId) :
                 selectedConversation' = [selectedConversation EXCEPT ![user] = <<id>>]
            /\ UNCHANGED Conversations
       ELSE \E id \in FreshConvIds :
              /\ Conversations' =
                   [ c \in DOMAIN Conversations \cup {id} |->
                       IF c = id THEN NewConversation(user, otherUserId)
                       ELSE Conversations[c] ]
              /\ selectedConversation' = [selectedConversation EXCEPT ![user] = <<id>>]
  /\ selectedGroup' = [selectedGroup EXCEPT ![user] = <<>>]
  /\ Mount({user})
  /\ groupChatMessages' = [groupChatMessages EXCEPT ![user] = <<>>]
  /\ UNCHANGED <<Messages, now, conversations, Groups,
                 groupMessages, group, sending, memberVars, deletedMessages>>
  /\ UNCHANGED sideVars

\* ------------------------------------------------------ ChatInterface ----

\* The document sendMessage writes.  timestamp: serverTimestamp() is 0 until
\* the server has accepted the write.  replyTo, forwardedFrom and
\* forwardedMessageId are <<>> when the code leaves the field out, and so is
\* editTimestamp until the message is edited.
NewMessage(user, text, conversationId) ==
  [ senderId |-> user,
    content |-> Trim(text),
    conversationId |-> conversationId,
    timestamp |-> 0,
    read |-> FALSE,
    readBy |-> <<user>>,
    type |-> "text",
    edited |-> FALSE,
    editTimestamp |-> <<>>,
    replyTo |-> replyingTo[user],
    forwardedFrom |-> IF forwarding[user] = <<>> THEN <<>>
                      ELSE <<Messages[forwarding[user][1]].senderId>>,
    forwardedMessageId |-> forwarding[user] ]

\* sendMessage as it would be with the guard !newMessage in place of
\* !newMessage.trim().
sendMessageUntrimmed(user, text) ==
  /\ selectedConversation[user] # <<>>
  /\ text # <<>>
  /\ Len(Messages) < MaxMsgs
  /\ Messages' = Append(Messages, NewMessage(user, text, selectedConversation[user][1]))
  /\ replyingTo' = [replyingTo EXCEPT ![user] = <<>>]
  /\ forwarding' = [forwarding EXCEPT ![user] = <<>>]
  /\ UNCHANGED <<Conversations, now, conversations, selectedConversation,
                 messages, Groups, groupChatVars, memberVars, deletedMessages,
                 editingMessage, editText, selectedMessages>>
  /\ UNCHANGED <<sideVars, listenerVars, groupChatMessages>>

\* sendMessage of the ChatInterface mounted for the selected conversation:
\* one addDoc to Messages; the Conversations document is not written.
sendMessage(user, text) ==
  /\ selectedConversation[user] # <<>>
  /\ Trim(text) # <<>>
  /\ Len(Messages) < MaxMsgs
  /\ Messages' = Append(Messages, NewMessage(user, text, selectedConversation[user][1]))
  /\ replyingTo' = [replyingTo EXCEPT ![user] = <<>>]
  /\ forwarding' = [forwarding EXCEPT ![user] = <<>>]
  /\ UNCHANGED <<Conversations, now, conversations, selectedConversation,
                 messages, Groups, groupChatVars, memberVars, deletedMessages,
                 editingMessage, editText, selectedMessages>>
  /\ UNCHANGED <<sideVars, listenerVars, groupChatMessages>>

\* The server accepts a pending write and resolves serverTimestamp(); one
\* client's writes are accepted in the order it made them.
ServerAccept(i) ==
  /\ i \in DOMAIN Messages \ deletedMessages
  /\ Messages[i].timestamp = 0
  /\ \A j \in 1..(i - 1) :
       Messages[j].senderId = Messages[i].senderId => Messages[j].timestamp # 0
  /\ Messages' = [Messages EXCEPT ![i].timestamp = now]
  /\ UNCHANGED <<Conversations, now, conversations, selectedConversation,
                 messages, Groups, groupChatVars, messageVars, memberVars>>
  /\ UNCHANGED <<sideVars, listenerVars, groupChatMessages>>

\* orderBy("timestamp", "asc"): whether document i comes before document j.
\* A pending server timestamp orders after every accepted one.
Before(i, j) ==
  LET ti == Messages[i].timestamp
      tj == Messages[j].timestamp
  IN  IF ti = 0 /\ tj = 0 THEN i < j
      ELSE IF ti = 0 THEN FALSE
      ELSE IF tj = 0 THEN TRUE
      ELSE ti < tj \/ (ti = tj /\ i < j)

RECURSIVE OrderBy(_)
OrderBy(S) ==
  IF S = {} THEN <<>>
  ELSE LET first == CHOOSE i \in S : \A j \in S \ {i} : Before(i, j)
       IN  <<first>> \o OrderBy(S \ {first})

\* The documents the messages listener of `user` sees for a conversation:
\* the accepted ones and the user's own pending writes.
MessagesQuery(user, conversationId) ==
  OrderBy({ i \in DOMAIN Messages \ deletedMessages :
              /\ Messages[i].conversationId = conversationId
              /\ (Messages[i].timestamp # 0 \/ Messages[i].senderId = user) })

\* timestamp: doc.data().timestamp?.toDate() || new Date()
ToDate(timestamp, clock) == IF timestamp = 0 THEN clock ELSE timestamp

\* What new Date() can return on a client.
ClientClock == (now - MaxSkew)..(now + MaxSkew)

\* fetchRelatedMessages, for one id: getDoc puts the message in the map only
\* if the document exists.
fetchRelatedMessages(messageId) ==
  IF messageId = <<>> \/ messageId[1] \in deletedMessages THEN <<>> ELSE messageId

\* onSnapshot callback of the messages listener: setMessages, each message
\* with the message it replies to as fetchRelatedMessages found it.
MessagesSnapshot(user) ==
  /\ selectedConversation[user] # <<>>
  /\ \E clock \in ClientClock :
       LET docs == MessagesQuery(user, selectedConversation[user][1])
       IN  messages' =
             [messages EXCEPT ![user] =
                [ k \in DOMAIN docs |->
                    [ id |-> docs[k],
                      timestamp |-> ToDate(Messages[docs[k]].timestamp, clock),
                      content |-> Messages[docs[k]].content,
                      replyToMessage |->
                        fetchRelatedMessages(Messages[docs[k]].replyTo) ] ]]
  /\ messages'[user] # messages[user]
  /\ UNCHANGED <<Conversations, Messages, now, conversations,
                 selectedConversation, Groups, groupChatVars, messageVars, memberVars>>
  /\ UNCHANGED <<sideVars, listenerVars, groupChatMessages>>

\* ----------------------------------------- ChatInterface: media messages ----

\* The kinds of file the pickers put in mediaPreview.
MediaTypes == {"image"}

\* getPublicUrl(fileName).data.publicUrl: the locator of the uploaded file.
MediaUrl == <<"url">>

\* uploadMedia with a mediaPreview of the given type: the upload, then the
\* addDoc of a message whose content is the locator.  The message carries no
\* reply and no forward, and replyingTo is left as it is.
uploadMedia(user, type) ==
  /\ selectedConversation[user] # <<>>
  /\ Len(Messages) < MaxMsgs
  /\ Messages' =
       Append(Messages,
              [ senderId |-> user,
                content |-> MediaUrl,
                conversationId |-> selectedConversation[user][1],
                timestamp |-> 0,
                read |-> FALSE,
                readBy |-> <<user>>,
                type |-> type,
                edited |-> FALSE,
                editTimestamp |-> <<>>,
                replyTo |-> <<>>,
                forwardedFrom |-> <<>>,
                forwardedMessageId |-> <<>> ])
  /\ UNCHANGED <<Conversations, now, conversations, selectedConversation,
                 messages, Groups, groupChatVars, memberVars, messageVars>>
  /\ UNCHANGED <<sideVars, listenerVars, groupChatMessages>>

\* ------------------------------------------ ChatInterface: message actions ----

\* The ids of the messages the client shows.
Shown(user) == { messages[user][k].id : k \in DOMAIN messages[user] }

\* The message of the list with the given id.
Row(user, messageId) ==
  CHOOSE message \in Range(messages[user]) : message.id = messageId

\* startEditMessage(message)
startEditMessage(user, messageId) ==
  /\ editingMessage' = [editingMessage EXCEPT ![user] = <<messageId>>]
  /\ editText' = [editText EXCEPT ![user] = Row(user, messageId).content]
  /\ UNCHANGED <<convVars, Groups, groupChatVars, memberVars, deletedMessages,
                 selectedMessages, replyingTo, forwarding>>
  /\ UNCHANGED <<sideVars, listenerVars, groupChatMessages>>

\* saveEditMessage as it would be if the update wrote a new timestamp too.
saveEditMessageResent(user) ==
  /\ editingMessage[user] # <<>>
  /\ Trim(editText[user]) # <<>>
  /\ editingMessage[user][1] \notin deletedMessages
  /\ Messages' = [Messages EXCEPT ![editingMessage[user][1]] =
                    [@ EXCEPT !.content = Trim(editText[user]),
                              !.edited = TRUE,
                              !.timestamp = 0,
                              !.editTimestamp = <<0>>]]
  /\ editingMessage' = [editingMessage EXCEPT ![user] = <<>>]
  /\ editText' = [editText EXCEPT ![user] = <<>>]
  /\ UNCHANGED <<Conversations, now, conversations, selectedConversation,
                 messages, Groups, groupChatVars, memberVars, deletedMessages,
                 selectedMessages, replyingTo, forwarding>>
  /\ UNCHANGED <<sideVars, listenerVars, groupChatMessages>>

\* saveEditMessage: one updateDoc of content, edited and editTimestamp
\* (serverTimestamp(), <<0>> until the server has accepted the write), then
\* the edit state is cleared.  updateDoc of a deleted document is rejected
\* and nothing after the await runs.
saveEditMessage(user) ==
  /\ editingMessage[user] # <<>>
  /\ Trim(editText[user]) # <<>>
  /\ editingMessage[user][1] \notin deletedMessages
  /\ Messages' = [Messages EXCEPT ![editingMessage[user][1]] =
                    [@ EXCEPT !.content = Trim(editText[user]),
                              !.edited = TRUE,
                              !.editTimestamp = <<0>>]]
  /\ editingMessage' = [editingMessage EXCEPT ![user] = <<>>]
  /\ editText' = [editText EXCEPT ![user] = <<>>]
  /\ UNCHANGED <<Conversations, now, conversations, selectedConversation,
                 messages, Groups, groupChatVars, memberVars, deletedMessages,
                 selectedMessages, replyingTo, forwarding>>
  /\ UNCHANGED <<sideVars, listenerVars, groupChatMessages>>

\* The server accepts a pending edit, after the write that created the
\* message, and resolves its serverTimestamp().
ServerAcceptEdit(i) ==
  /\ i \in DOMAIN Messages \ deletedMessages
  /\ Messages[i].type # "system"
  /\ Messages[i].editTimestamp = <<0>>
  /\ Messages[i].timestamp # 0
  /\ Messages' = [Messages EXCEPT ![i].editTimestamp = <<now>>]
  /\ UNCHANGED <<Conversations, now, conversations, selectedConversation,
                 messages, Groups, groupChatVars, memberVars, messageVars>>
  /\ UNCHANGED <<sideVars, listenerVars, groupChatMessages>>

\* deleteMessage(messageId): deleteDoc.
deleteMessage(user, messageId) ==
  /\ deletedMessages' = deletedMessages \cup {messageId}
  /\ UNCHANGED <<convVars, Groups, groupChatVars, memberVars, menuVars>>
  /\ UNCHANGED <<sideVars, listenerVars, groupChatMessages>>

\* toggleMessageSelection(messageId)
toggleMessageSelection(user, messageId) ==
  /\ selectedMessages' =
       [selectedMessages EXCEPT ![user] =
          IF messageId \in @ THEN @ \ {messageId} ELSE @ \cup {messageId}]
  /\ UNCHANGED <<convVars, Groups, groupChatVars, memberVars, deletedMessages,
                 editingMessage, editText, replyingTo, forwarding>>
  /\ UNCHANGED <<sideVars, listenerVars, groupChatMessages>>

\* deleteSelectedMessages: one batch that deletes every ticked id, then the
\* selection is cleared.
deleteSelectedMessages(user) ==
  /\ deletedMessages' = deletedMessages \cup selectedMessages[user]
  /\ selectedMessages' = [selectedMessages EXCEPT ![user] = {}]
  /\ UNCHANGED <<convVars, Groups, groupChatVars, memberVars,
                 editingMessage, editText, replyingTo, forwarding>>
  /\ UNCHANGED <<sideVars, listenerVars, groupChatMessages>>

\* deleteAllMessages: one batch that deletes every message of the list.
deleteAllMessages(user) ==
  /\ deletedMessages' = deletedMessages \cup Shown(user)
  /\ UNCHANGED <<convVars, Groups, groupChatVars, memberVars, menuVars>>
  /\ UNCHANGED <<sideVars, listenerVars, groupChatMessages>>

\* startReply(message)
startReply(user, messageId) ==
  /\ replyingTo' = [replyingTo EXCEPT ![user] = <<messageId>>]
  /\ UNCHANGED <<convVars, Groups, groupChatVars, memberVars, deletedMessages,
                 editingMessage, editText, selectedMessages, forwarding>>
  /\ UNCHANGED <<sideVars, listenerVars, groupChatMessages>>

\* startForward(message)
startForward(user, messageId) ==
  /\ forwarding' = [forwarding EXCEPT ![user] = <<messageId>>]
  /\ UNCHANGED <<convVars, Groups, groupChatVars, memberVars, deletedMessages,
                 editingMessage, editText, selectedMessages, replyingTo>>
  /\ UNCHANGED <<sideVars, listenerVars, groupChatMessages>>

\* renderMessageContent(message) for a message of a user: the reply preview,
\* when the listener found the message replied to, above the message's own
\* content; the content alone otherwise.
renderMessageContent(message) ==
  IF message.replyToMessage # <<>>
    THEN << [kind |-> "reply", to |-> message.replyToMessage[1]],
            [kind |-> "main", content |-> message.content] >>
    ELSE << [kind |-> "main", content |-> message.content] >>

\* ------------------------------- ChatInterface: the message list's buttons ----

\* The menu of a message of the list: its button is rendered under
\* !editingMessage && message.senderId !== "system".
MessageMenu(user, messageId) ==
  /\ selectedConversation[user] # <<>>
  /\ messageId \in Shown(user)
  /\ editingMessage[user] = <<>>
  /\ Messages[messageId].senderId # "system"

\* Reply, Forward and Select are rendered for every message.
ReplyMenuItem(user, messageId) ==
  /\ MessageMenu(user, messageId)
  /\ replyingTo[user] # <<messageId>>
  /\ startReply(user, messageId)

ForwardMenuItem(user, messageId) ==
  /\ MessageMenu(user, messageId)
  /\ forwarding[user] # <<messageId>>
  /\ startForward(user, messageId)

SelectMenuItem(user, messageId) ==
  /\ MessageMenu(user, messageId)
  /\ toggleMessageSelection(user, messageId)

\* The Edit item as it would be if it were rendered for every message.
EditMenuItemForAll(user, messageId) ==
  /\ MessageMenu(user, messageId)
  /\ startEditMessage(user, messageId)

\* Edit and Delete are rendered under message.senderId === currentUser.id.
EditMenuItem(user, messageId) ==
  /\ MessageMenu(user, messageId)
  /\ Messages[messageId].senderId = user
  /\ startEditMessage(user, messageId)

\* (deleteDoc of a document already deleted leaves the store as it is.)
DeleteMenuItem(user, messageId) ==
  /\ MessageMenu(user, messageId)
  /\ Messages[messageId].senderId = user
  /\ messageId \notin deletedMessages
  /\ deleteMessage(user, messageId)

\* The row of the message being edited, rendered under
\* editingMessage === message.id: the input (setEditText) and Save.  (Cancel
\* clears editingMessage and editText and writes nothing.)
EditRow(user) ==
  /\ selectedConversation[user] # <<>>
  /\ editingMessage[user] # <<>>
  /\ editingMessage[user][1] \in Shown(user)

EditInput(user, text) ==
  /\ EditRow(user)
  /\ text # editText[user]
  /\ editText' = [editText EXCEPT ![user] = text]
  /\ UNCHANGED <<convVars, Groups, groupChatVars, memberVars, deletedMessages,
                 editingMessage, selectedMessages, replyingTo, forwarding>>
  /\ UNCHANGED <<sideVars, listenerVars, groupChatMessages>>

SaveButton(user) ==
  /\ EditRow(user)
  /\ saveEditMessage(user)

\* The Delete button of the bulk actions, rendered under
\* selectedMessages.size > 0.
DeleteSelectedButton(user) ==
  /\ selectedConversation[user] # <<>>
  /\ selectedMessages[user] # {}
  /\ deleteSelectedMessages(user)

\* The Delete All button, rendered under
\* messages.length > 0 && selectedMessages.size === 0.  (A batch of
\* documents already deleted leaves the store as it is.)
DeleteAllButton(user) ==
  /\ selectedConversation[user] # <<>>
  /\ messages[user] # <<>>
  /\ selectedMessages[user] = {}
  /\ Shown(user) \ deletedMessages # {}
  /\ deleteAllMessages(user)

\* --------------------------------------- direct conversations: specs ----

\* Every user runs a client: conversations are started and written to.
NextConversations ==
  \/ \E user \in Users : ConversationsSnapshot(user)
  \/ \E user \in Users, otherUserId \in Users : startConversation(user, otherUserId)
  \/ \E user \in Users, text \in TextInputs : sendMessage(user, text)
  \/ \E i \in 1..MaxMsgs : ServerAccept(i)

SpecConversations == Init /\ [][NextConversations]_vars

\* The clients that run in SpecListener, and what they type.
ListenerClients == {"u1", "u2"}
ListenerTexts == { <<" ">>, <<"h", "i">> }

\* Two clients with their messages listeners, the server's clock running.
NextListener ==
  \/ Tick
  \/ \E user \in ListenerClients : ConversationsSnapshot(user)
  \/ \E user \in ListenerClients, otherUserId \in Users :
       startConversation(user, otherUserId)
  \/ \E user \in ListenerClients, text \in ListenerTexts : sendMessage(user, text)
  \/ \E i \in 1..MaxMsgs : ServerAccept(i)
  \/ \E user \in ListenerClients : MessagesSnapshot(user)

SpecListener == Init /\ [][NextListener]_vars

\* -------------------------------------- direct conversations: claims ----

\* The conversations whose participants are the pair {a, b}.
ConversationsOfPair(a, b) ==
  { id \in DOMAIN Conversations : Range(Conversations[id].participants) = {a, b} }

\* The conversations that the client of `a` created with `b`.
ConversationsCreatedBy(a, b) ==
  { id \in DOMAIN Conversations : Conversations[id].participants = <<a, b>> }

\* startConversation(b) has returned on a's client: the conversation it
\* selected is one of the pair {a, b}.
HasStarted(a, b) ==
  /\ selectedConversation[a] # <<>>
  /\ selectedConversation[a][1] \in ConversationsOfPair(a, b)

\* C1: when the clients of two distinct users A and B have both run
\* startConversation for each other, in any interleaving, the store holds
\* exactly one conversation whose participants are {A, B}.
C1_ConcurrentStartYieldsOneConversation ==
  \A a \in Users : \A b \in Users \ {a} :
    (HasStarted(a, b) /\ HasStarted(b, a)) =>
      Cardinality(ConversationsOfPair(a, b)) = 1

\* C2: startConversation is idempotent on one client: however often the
\* client of A calls startConversation(B), the store never holds two
\* conversations that A's client created with B.
C2_StartConversationIdempotent ==
  \A a \in Users : \A b \in Users \ {a} :
    Cardinality(ConversationsCreatedBy(a, b)) <= 1

\* The messages of a conversation, in order of creation.
MessagesOf(conversationId) ==
  SelectSeq(Messages, LAMBDA m : m.conversationId = conversationId)

\* C3: after N messages sent to a direct conversation, each participant's
\* unreadCount is the number of messages the other participant sent, and
\* lastMessage is the content of the last message (after "hi" from U1 to U2:
\* lastMessage = "hi", unreadCount[U2] = 1, unreadCount[U1] = 0).
C3_SendUpdatesUnreadAndLastMessage ==
  \A id \in DOMAIN Conversations :
    LET conv == Conversations[id]
        sent == MessagesOf(id)
    IN  /\ \A p \in DOMAIN conv.unreadCount :
             conv.unreadCount[p] =
               Len(SelectSeq(sent, LAMBDA m : m.senderId # p))
        /\ sent # <<>> => conv.lastMessage = sent[Len(sent)].content

\* C5: the message list a client holds after any snapshot is non-decreasing
\* in timestamp.
C5_MessagesNonDecreasingInTimestamp ==
  \A user \in Users :
    \A i \in DOMAIN messages[user], j \in DOMAIN messages[user] :
      i < j => messages[user][i].timestamp <= messages[user][j].timestamp

\* ----------------------------------------------- DashboardPage: groups ----

\* addDoc: the id of a new document of the Groups collection (none once the
\* ids are used up).
FreshGroupIds == GroupIds \ DOMAIN Groups

\* The groups listener: where("participants", "array-contains", user.id).
GroupsQuery(user) ==
  { id \in DOMAIN Groups : Includes(Groups[id].participants, user) }

\* The document as it would be with every participant made an admin.
NewGroupAllAdmins(user, name, selectedUsersForGroup) ==
  [ name |-> Trim(name),
    createdBy |-> user,
    participants |-> SetToSeq(selectedUsersForGroup) \o <<user>>,
    admins |-> SetToSeq(selectedUsersForGroup) \o <<user>>,
    isActive |-> TRUE,
    lastMessage |-> <<>> ]

\* The document createGroup writes: the selected users, then the creator.
NewGroup(user, name, selectedUsersForGroup) ==
  [ name |-> Trim(name),
    createdBy |-> user,
    participants |-> SetToSeq(selectedUsersForGroup) \o <<user>>,
    admins |-> <<user>>,
    isActive |-> TRUE,
    lastMessage |-> <<>> ]

\* createGroup, with the name typed and the users ticked in the list of
\* general users (which leaves out the signed-in user).
createGroup(user, name, selectedUsersForGroup) ==
  /\ selectedUsersForGroup \subseteq Users \ {user}
  /\ Trim(name) # <<>>
  /\ selectedUsersForGroup # {}
  /\ \E id \in FreshGroupIds :
       /\ Groups' = [ g \in DOMAIN Groups \cup {id} |->
                        IF g = id THEN NewGroup(user, name, selectedUsersForGroup)
                        ELSE Groups[g] ]
       /\ selectedGroup' = [selectedGroup EXCEPT ![user] = <<id>>]
  /\ selectedConversation' = [selectedConversation EXCEPT ![user] = <<>>]
  /\ Mount({user})
  /\ groupForm' = [groupForm EXCEPT ![user] = EmptyGroupForm]
  /\ groupChatMessages' = [groupChatMessages EXCEPT ![user] = <<>>]
  /\ UNCHANGED <<Conversations, Messages, now, conversations,
                 groupMessages, group, sending, memberVars, deletedMessages>>
  /\ UNCHANGED besideChat

\* selectGroup(groupId), called from the list the groups listener feeds.
selectGroup(user, groupId) ==
  /\ groupId \in GroupsQuery(user)
  /\ selectedGroup[user] # <<groupId>>
  /\ selectedGroup' = [selectedGroup EXCEPT ![user] = <<groupId>>]
  /\ selectedConversation' = [selectedConversation EXCEPT ![user] = <<>>]
  /\ Mount({user})
  /\ groupChatMessages' = [groupChatMessages EXCEPT ![user] = <<>>]
  /\ UNCHANGED <<Conversations, Messages, now, conversations, Groups,
                 groupMessages, group, sending, memberVars, deletedMessages>>
  /\ UNCHANGED sideVars

\* ------------------------------------------------- GroupChatInterface ----

\* fetchGroupData of the GroupChatInterface mounted for the selected group:
\* setGroup once the group document is read.
fetchGroupData(user) ==
  /\ selectedGroup[user] # <<>>
  /\ selectedGroup[user][1] \in DOMAIN Groups
  /\ group[user] # selectedGroup[user]
  /\ group' = [group EXCEPT ![user] = selectedGroup[user]]
  /\ UNCHANGED <<convVars, Groups, groupMessages, selectedGroup, sending,
                 memberVars, messageVars>>
  /\ UNCHANGED <<sideVars, listenerVars, groupChatMessages>>

\* sendMessage, up to its first await: the message is added to the group's
\* messages, its timestamp: serverTimestamp() 0 until the server accepts
\* the write.  The input is disabled while a send is in flight.
sendGroupMessage(user, text) ==
  /\ selectedGroup[user] # <<>>
  /\ Trim(text) # <<>>
  /\ group[user] # <<>>
  /\ sending[user] = <<>>
  /\ LET groupId == selectedGroup[user][1]
     IN  /\ Len(groupMessages[groupId]) < MaxGroupMsgs
         /\ groupMessages' =
              [groupMessages EXCEPT ![groupId] =
                 Append(@, [text |-> Trim(text), senderId |-> user, type |-> "text",
                            timestamp |-> 0])]
         /\ sending' = [sending EXCEPT ![user] =
                          <<[groupId |-> groupId, text |-> Trim(text)]>>]
  /\ UNCHANGED <<convVars, Groups, selectedGroup, group, memberVars, messageVars>>
  /\ UNCHANGED <<sideVars, listenerVars, groupChatMessages>>

\* await addDoc has resolved: the server has accepted the write of `user`
\* and set its timestamp.
addDocResolved(sent, user) ==
  [ k \in DOMAIN sent |->
      IF sent[k].senderId = user /\ sent[k].timestamp = 0
        THEN [sent[k] EXCEPT !.timestamp = now]
        ELSE sent[k] ]

\* sendMessage, from the return of addDoc: its second write, the group's
\* lastMessage is updated.
updateGroupLastMessage(user) ==
  /\ sending[user] # <<>>
  /\ groupMessages' = [groupMessages EXCEPT ![sending[user][1].groupId] =
                         addDocResolved(@, user)]
  /\ Groups' = [Groups EXCEPT ![sending[user][1].groupId].lastMessage =
                                sending[user][1].text]
  /\ sending' = [sending EXCEPT ![user] = <<>>]
  /\ UNCHANGED <<convVars, selectedGroup, group, memberVars, messageVars>>
  /\ UNCHANGED <<sideVars, listenerVars, groupChatMessages>>

\* sendMessage, its second write rejected: the catch block reports the error
\* and the message stays.
updateGroupLastMessageFails(user) ==
  /\ sending[user] # <<>>
  /\ groupMessages' = [groupMessages EXCEPT ![sending[user][1].groupId] =
                         addDocResolved(@, user)]
  /\ sending' = [sending EXCEPT ![user] = <<>>]
  /\ UNCHANGED <<convVars, Groups, selectedGroup, group,
                 memberVars, messageVars>>
  /\ UNCHANGED <<sideVars, listenerVars, groupChatMessages>>

NextGroupChat ==
  \/ \E user \in Users, name \in NameInputs, selected \in SUBSET Users :
       createGroup(user, name, selected)
  \/ \E user \in Users, groupId \in GroupIds : selectGroup(user, groupId)
  \/ \E user \in Users : fetchGroupData(user)
  \/ \E user \in Users, text \in TextInputs : sendGroupMessage(user, text)
  \/ \E user \in Users : updateGroupLastMessage(user)
  \/ \E user \in Users : updateGroupLastMessageFails(user)

SpecGroupChat == Init /\ [][NextGroupChat]_vars

\* C4: a group's messages and its lastMessage change as a unit: in every
\* state of the store the group's lastMessage is the text of the last message
\* of its messages (and empty while it has none).
C4_GroupMessageAndLastMessageAtomic ==
  \A groupId \in DOMAIN Groups :
    LET sent == groupMessages[groupId]
    IN  Groups[groupId].lastMessage =
          IF sent = <<>> THEN <<>> ELSE sent[Len(sent)].text

\* ------------------------------------- ChatInterface: group management ----

\* The number of system messages a group's conversation holds at most.
MaxSystemMsgs == 3

SystemMessages == SelectSeq(Messages, LAMBDA m : m.type = "system")

\* The system message a group management handler adds: who did what to whom.
SystemMessage(user, action, members, conversationId) ==
  [ senderId |-> "system",
    content |-> [by |-> user, action |-> action, members |-> members],
    conversationId |-> conversationId,
    timestamp |-> 0,
    type |-> "system" ]

\* fetchGroupMembers: the participants that have a user document, in order.
fetchGroupMembers(participantIds) ==
  SelectSeq(participantIds, LAMBDA userId : userId \in Users)

\* fetchConversationData, group branch: a ChatInterface is mounted with
\* isGroup for a group of the user's list, and setGroupInfo keeps the group
\* as read then.  It runs again only when the chat is opened again.
fetchConversationData(user, groupId) ==
  /\ groupId \in GroupsQuery(user)
  /\ LET fetched == [ id |-> groupId,
                      participants |-> Groups[groupId].participants,
                      admins |-> Groups[groupId].admins,
                      createdBy |-> Groups[groupId].createdBy ]
     IN  /\ groupInfo[user] # <<fetched>>
           \/ groupMembers[user] # fetchGroupMembers(fetched.participants)
         /\ groupInfo' = [groupInfo EXCEPT ![user] = <<fetched>>]
         /\ groupMembers' =
              [groupMembers EXCEPT ![user] = fetchGroupMembers(fetched.participants)]
  /\ UNCHANGED <<convVars, Groups, groupChatVars, messageVars, addVars, modalVars>>
  /\ UNCHANGED <<sideVars, listenerVars, groupChatMessages>>

\* isGroupAdmin: groupInfo?.admins.includes(currentUser.id) || false
isGroupAdmin(user) ==
  groupInfo[user] # <<>> /\ Includes(groupInfo[user][1].admins, user)

\* A weaker guard than isGroupCreator: any admin of the cached group passes.
isGroupCreatorOrAdmin(user) ==
  groupInfo[user] # <<>> /\ Includes(groupInfo[user][1].admins, user)

\* isGroupCreator: groupInfo?.createdBy === currentUser.id
isGroupCreator(user) ==
  groupInfo[user] # <<>> /\ groupInfo[user][1].createdBy = user

\* A handler's two writes: updateDoc on the group, then addDoc of the system
\* message to the conversation the chat is open on.
Written(user, op, members, groupDoc) ==
  LET groupId == groupInfo[user][1].id
  IN  /\ Len(SystemMessages) < MaxSystemMsgs
      /\ Groups' = [Groups EXCEPT ![groupId] = groupDoc]
      /\ Messages' = Append(Messages, SystemMessage(user, op, members, groupId))
      /\ UNCHANGED <<Conversations, now, conversations, selectedConversation,
                     messages, groupChatVars, messageVars, groupInfo, availableUsers,
                     showGroupInfo>>

\* fetchAvailableUsers keeps the entries of the users documents it reads
\* that are not in groupInfo.participants and not the current user.
AvailableUsers(user) ==
  IF groupInfo[user] = <<>> THEN Users \ {user}
  ELSE { u \in Users : ~Includes(groupInfo[user][1].participants, u) /\ u # user }

\* fetchAvailableUsers: setAvailableUsers.
fetchAvailableUsers(user) ==
  availableUsers' = [availableUsers EXCEPT ![user] = AvailableUsers(user)]

\* toggleUserSelectionForAdd(userId)
toggleUserSelectionForAdd(user, userId) ==
  /\ selectedUsersToAdd' =
       [selectedUsersToAdd EXCEPT ![user] =
          IF userId \in @ THEN @ \ {userId} ELSE @ \cup {userId}]
  /\ UNCHANGED <<convVars, Groups, groupChatVars, messageVars, groupInfo, groupMembers,
                 availableUsers, modalVars>>
  /\ UNCHANGED <<sideVars, listenerVars, groupChatMessages>>

\* addMembersToGroup, on the users ticked; after the two writes the selection
\* is cleared and the Add Members modal closed.
addMembersToGroup(user) ==
  /\ groupInfo[user] # <<>>
  /\ selectedUsersToAdd[user] # {}
  /\ LET newParticipants == SetToSeq(selectedUsersToAdd[user])
         updatedParticipants == groupInfo[user][1].participants \o newParticipants
     IN  /\ Written(user, "addMembersToGroup", newParticipants,
                    [Groups[groupInfo[user][1].id] EXCEPT
                       !.participants = updatedParticipants])
         /\ groupMembers' =
              [groupMembers EXCEPT ![user] = fetchGroupMembers(updatedParticipants)]
  /\ selectedUsersToAdd' = [selectedUsersToAdd EXCEPT ![user] = {}]
  /\ showAddMembers' = [showAddMembers EXCEPT ![user] = FALSE]
  /\ UNCHANGED <<sideVars, listenerVars, groupChatMessages>>

\* removeMemberFromGroup(memberId)
removeMemberFromGroup(user, memberId) ==
  /\ groupInfo[user] # <<>>
  /\ isGroupAdmin(user)
  /\ Written(user, "removeMemberFromGroup", <<memberId>>,
             [Groups[groupInfo[user][1].id] EXCEPT
                !.participants = FilterOut(groupInfo[user][1].participants, memberId),
                !.admins = FilterOut(groupInfo[user][1].admins, memberId)])
  /\ groupMembers' =
       [groupMembers EXCEPT ![user] =
          fetchGroupMembers(FilterOut(groupInfo[user][1].participants, memberId))]
  /\ UNCHANGED <<selectedUsersToAdd, showAddMembers>>
  /\ UNCHANGED <<sideVars, listenerVars, groupChatMessages>>

\* arrayUnion: append unless present.
ArrayUnion(s, x) == IF Includes(s, x) THEN s ELSE Append(s, x)

\* arrayRemove: remove every occurrence.
ArrayRemove(s, x) == FilterOut(s, x)

\* promoteToAdmin(memberId)
promoteToAdmin(user, memberId) ==
  /\ groupInfo[user] # <<>>
  /\ isGroupCreator(user)
  /\ Written(user, "promoteToAdmin", <<memberId>>,
             [Groups[groupInfo[user][1].id] EXCEPT
                !.admins = ArrayUnion(@, memberId)])
  /\ UNCHANGED <<groupMembers, selectedUsersToAdd, showAddMembers>>
  /\ UNCHANGED <<sideVars, listenerVars, groupChatMessages>>

\* demoteFromAdmin(memberId)
demoteFromAdmin(user, memberId) ==
  /\ groupInfo[user] # <<>>
  /\ isGroupCreator(user)
  /\ memberId # groupInfo[user][1].createdBy
  /\ Written(user, "demoteFromAdmin", <<memberId>>,
             [Groups[groupInfo[user][1].id] EXCEPT
                !.admins = ArrayRemove(@, memberId)])
  /\ UNCHANGED <<groupMembers, selectedUsersToAdd, showAddMembers>>
  /\ UNCHANGED <<sideVars, listenerVars, groupChatMessages>>

\* leaveGroup
leaveGroup(user) ==
  /\ groupInfo[user] # <<>>
  /\ Written(user, "leaveGroup", <<user>>,
             [Groups[groupInfo[user][1].id] EXCEPT
                !.participants = FilterOut(groupInfo[user][1].participants, user),
                !.admins = FilterOut(groupInfo[user][1].admins, user)])
  /\ UNCHANGED <<groupMembers, selectedUsersToAdd, showAddMembers>>
  /\ UNCHANGED <<sideVars, listenerVars, groupChatMessages>>

\* ----------------------------- ChatInterface: the group management modals ----

\* The Manage button of the chat header, rendered under isGroupAdmin():
\* setShowGroupInfo(true).  (Closing a modal enables no call and is left out.)
ManageButton(user) ==
  /\ isGroupAdmin(user)
  /\ ~showGroupInfo[user]
  /\ showGroupInfo' = [showGroupInfo EXCEPT ![user] = TRUE]
  /\ UNCHANGED <<convVars, Groups, groupChatVars, messageVars, groupInfo, groupMembers,
                 addVars, showAddMembers>>
  /\ UNCHANGED <<sideVars, listenerVars, groupChatMessages>>

\* A member's row of the Group Info modal, rendered under
\* showGroupInfo && groupInfo for every member of groupMembers.
MemberRow(user, memberId) ==
  /\ showGroupInfo[user]
  /\ groupInfo[user] # <<>>
  /\ Includes(groupMembers[user], memberId)

\* The buttons of a row, rendered under
\* isGroupCreator() && member.id !== currentUser.id: Make Admin for a member
\* not in groupInfo.admins, Remove Admin for one in it, and Remove.
MakeAdminButton(user, memberId) ==
  /\ MemberRow(user, memberId)
  /\ isGroupCreator(user) /\ memberId # user
  /\ ~Includes(groupInfo[user][1].admins, memberId)
  /\ promoteToAdmin(user, memberId)

RemoveAdminButton(user, memberId) ==
  /\ MemberRow(user, memberId)
  /\ isGroupCreator(user) /\ memberId # user
  /\ Includes(groupInfo[user][1].admins, memberId)
  /\ demoteFromAdmin(user, memberId)

\* The Remove button as it would be if every admin were shown it.
RemoveButtonForAdmins(user, memberId) ==
  /\ MemberRow(user, memberId)
  /\ isGroupAdmin(user) /\ memberId # user
  /\ removeMemberFromGroup(user, memberId)

RemoveButton(user, memberId) ==
  /\ MemberRow(user, memberId)
  /\ isGroupCreator(user) /\ memberId # user
  /\ removeMemberFromGroup(user, memberId)

\* The Leave button as it would be if the creator too were shown it.
LeaveButtonForAll(user) ==
  /\ MemberRow(user, user)
  /\ leaveGroup(user)

\* The Leave button, rendered in the user's own row under !isGroupCreator().
LeaveButton(user) ==
  /\ MemberRow(user, user)
  /\ ~isGroupCreator(user)
  /\ leaveGroup(user)

\* The Add Members button of the Group Info modal, rendered under
\* isGroupAdmin(): fetchAvailableUsers(), setShowAddMembers(true).
AddMembersButton(user) ==
  /\ showGroupInfo[user]
  /\ groupInfo[user] # <<>>
  /\ isGroupAdmin(user)
  /\ fetchAvailableUsers(user)
  /\ showAddMembers' = [showAddMembers EXCEPT ![user] = TRUE]
  /\ availableUsers'[user] # availableUsers[user] \/ ~showAddMembers[user]
  /\ UNCHANGED <<convVars, Groups, groupChatVars, messageVars, groupInfo, groupMembers,
                 selectedUsersToAdd, showGroupInfo>>
  /\ UNCHANGED <<sideVars, listenerVars, groupChatMessages>>

\* A row of the Add Members modal, rendered under showAddMembers for every
\* user of availableUsers: toggleUserSelectionForAdd(user.id).
AvailableUserRow(user, userId) ==
  /\ showAddMembers[user]
  /\ userId \in availableUsers[user]
  /\ toggleUserSelectionForAdd(user, userId)

\* The Add Selected button of the Add Members modal, disabled while nothing
\* is ticked.
AddSelectedButton(user) ==
  /\ showAddMembers[user]
  /\ selectedUsersToAdd[user] # {}
  /\ addMembersToGroup(user)

\* Group names typed in the membership specifications.
MemberNames == { <<"g">> }

\* The users who create a group in the membership specifications.
MemberCreators == {"u1"}

NextMembership ==
  \/ \E user \in MemberCreators, name \in MemberNames, selected \in SUBSET Users :
       createGroup(user, name, selected)
  \/ \E user \in Users, groupId \in GroupIds : fetchConversationData(user, groupId)
  \/ \E user \in Users : ManageButton(user)
  \/ \E user \in Users, memberId \in Users : RemoveButton(user, memberId)
  \/ \E user \in Users, memberId \in Users : MakeAdminButton(user, memberId)
  \/ \E user \in Users, memberId \in Users : RemoveAdminButton(user, memberId)
  \/ \E user \in Users : LeaveButton(user)

SpecMembership == Init /\ [][NextMembership]_vars

\* The handlers that write the admins array alone, with the removal handler
\* that makes a client's cached group stale.
NextRoles ==
  \/ \E user \in MemberCreators, name \in MemberNames, selected \in SUBSET Users :
       createGroup(user, name, selected)
  \/ \E user \in Users, groupId \in GroupIds : fetchConversationData(user, groupId)
  \/ \E user \in Users : ManageButton(user)
  \/ \E user \in Users, memberId \in Users : RemoveButton(user, memberId)
  \/ \E user \in Users, memberId \in Users : MakeAdminButton(user, memberId)
  \/ \E user \in Users, memberId \in Users : RemoveAdminButton(user, memberId)

SpecRoles == Init /\ [][NextRoles]_vars

\* removeMemberFromGroup called on any member the client lists, whatever the
\* row's buttons: the handler by itself.
NextRemoveMember ==
  \/ \E user \in MemberCreators, name \in MemberNames, selected \in SUBSET Users :
       createGroup(user, name, selected)
  \/ \E user \in Users, groupId \in GroupIds : fetchConversationData(user, groupId)
  \/ \E user \in Users : ManageButton(user)
  \/ \E user \in Users, memberId \in Users : MakeAdminButton(user, memberId)
  \/ \E user \in Users : \E memberId \in Range(groupMembers[user]) :
       removeMemberFromGroup(user, memberId)

SpecRemoveMember == Init /\ [][NextRemoveMember]_vars

\* The Add Members modal, with the removal and promotion buttons beside it.
NextAddMembers ==
  \/ \E user \in MemberCreators, name \in MemberNames, selected \in SUBSET Users :
       createGroup(user, name, selected)
  \/ \E user \in Users, groupId \in GroupIds : fetchConversationData(user, groupId)
  \/ \E user \in Users : ManageButton(user)
  \/ \E user \in Users : AddMembersButton(user)
  \/ \E user \in Users, userId \in Users : AvailableUserRow(user, userId)
  \/ \E user \in Users : AddSelectedButton(user)
  \/ \E user \in Users, memberId \in Users : RemoveButton(user, memberId)
  \/ \E user \in Users, memberId \in Users : MakeAdminButton(user, memberId)
  \/ \E user \in Users, memberId \in Users : RemoveAdminButton(user, memberId)

SpecAddMembers == Init /\ [][NextAddMembers]_vars

\* ------------------------------------------- claims on group management ----

\* The step appends a system message of one of the given handlers.
Appended(actions) ==
  /\ Len(Messages') = Len(Messages) + 1
  /\ Messages'[Len(Messages')].type = "system"
  /\ Messages'[Len(Messages')].content.action \in actions

\* The system message the step appends.
appended == Messages'[Len(Messages')]

\* C6: in every reachable state of every group, every admin is a participant.
C6_AdminsSubsetOfParticipants ==
  \A g \in DOMAIN Groups :
    Range(Groups[g].admins) \subseteq Range(Groups[g].participants)

\* C7: in every reachable state of every group, the creator is a participant
\* and an admin.
C7_CreatorAlwaysParticipantAndAdmin ==
  \A g \in DOMAIN Groups :
    /\ Includes(Groups[g].participants, Groups[g].createdBy)
    /\ Includes(Groups[g].admins, Groups[g].createdBy)

\* C7 witness: a member has left the group and the creator has removed or
\* demoted a member.
C7_MemberLeftAndMemberRemoved ==
  \E i \in DOMAIN Messages, j \in DOMAIN Messages :
    /\ Messages[i].type = "system" /\ Messages[j].type = "system"
    /\ Messages[i].content.action = "leaveGroup"
    /\ Messages[j].content.action \in {"removeMemberFromGroup", "demoteFromAdmin"}
    /\ Messages[i].conversationId = Messages[j].conversationId

C9_OnlyCreatorChangesRoles ==
  [][ Appended({"promoteToAdmin", "demoteFromAdmin"}) =>
        LET createdBy == Groups[appended.conversationId].createdBy
        IN  /\ appended.content.by = createdBy
            /\ appended.content.action = "demoteFromAdmin"
                 => /\ appended.content.members # <<createdBy>>
                    /\ Includes(Groups'[appended.conversationId].admins, createdBy)
                         = Includes(Groups[appended.conversationId].admins, createdBy) ]_vars

\* C9 witness: the creator has promoted a member and demoted a member, and
\* still holds the group it fetched, so that demoting itself is a call it can
\* make.
C9_CreatorPromotedAndDemoted ==
  \E i \in DOMAIN Messages, j \in DOMAIN Messages :
    /\ Messages[i].type = "system" /\ Messages[j].type = "system"
    /\ Messages[i].content.action = "promoteToAdmin"
    /\ Messages[j].content.action = "demoteFromAdmin"
    /\ Messages[i].content.by = Groups[Messages[i].conversationId].createdBy
    /\ isGroupCreator(Messages[i].content.by)

last == Messages[Len(Messages)]

DeletedConversation ==
  [ participants |-> <<>>,
    lastMessage |-> <<>>,
    unreadCount |-> <<>>,
    type |-> "deleted" ]

\* deleteSingleConversation(conversationId), called from a row of the
\* conversations list, the confirm dialog answered with OK.
deleteSingleConversation(user, conversationId) ==
  /\ conversationId \in conversations[user]
  /\ Conversations' = [Conversations EXCEPT ![conversationId] = DeletedConversation]
  /\ selectedConversation' =
       [selectedConversation EXCEPT ![user] =
          IF @ = <<conversationId>> THEN <<>> ELSE @]
  /\ Mount(IF selectedConversation[user] = <<conversationId>> THEN {user} ELSE {})
  /\ UNCHANGED <<Messages, now, conversations, Groups, groupChatVars,
                 memberVars, deletedMessages>>
  /\ UNCHANGED <<sideVars, groupChatMessages>>

\* The users who act in SpecUnauthorized, and what they type.
SenderClients == {"u1", "u2"}
SenderTexts == { <<"h", "i">> }

\* Chat views that stay open while the conversation is deleted or the user is
\* removed from the group: u1 starts the conversations and creates and manages
\* the group, u1 and u2 delete conversations and send.
NextUnauthorized ==
  \/ \E user \in SenderClients : ConversationsSnapshot(user)
  \/ \E user \in MemberCreators, otherUserId \in SenderClients :
       startConversation(user, otherUserId)
  \/ \E user \in SenderClients, conversationId \in Range(ConvIds) :
       deleteSingleConversation(user, conversationId)
  \/ \E user \in SenderClients, text \in SenderTexts : sendMessage(user, text)
  \/ \E user \in MemberCreators, name \in MemberNames, selected \in SUBSET SenderClients :
       createGroup(user, name, selected)
  \/ \E user \in SenderClients, groupId \in GroupIds : selectGroup(user, groupId)
  \/ \E user \in SenderClients : fetchGroupData(user)
  \/ \E user \in SenderClients, text \in SenderTexts : sendGroupMessage(user, text)
  \/ \E user \in SenderClients : updateGroupLastMessage(user)
  \/ \E user \in MemberCreators, groupId \in GroupIds : fetchConversationData(user, groupId)
  \/ \E user \in MemberCreators : ManageButton(user)
  \/ \E user \in MemberCreators, memberId \in Users : RemoveButton(user, memberId)

SpecUnauthorized == Init /\ [][NextUnauthorized]_vars

\* C14: whoever appends a message is, when the write is applied, a participant
\* of the conversation it goes to, or a participant of the group whose
\* messages it goes to.
C14_SenderIsParticipantAtWrite ==
  [][ /\ (/\ Len(Messages') = Len(Messages) + 1
          /\ Messages'[Len(Messages')].type = "text")
        => LET m == Messages'[Len(Messages')]
           IN  /\ m.conversationId \in DOMAIN Conversations
               /\ Includes(Conversations[m.conversationId].participants, m.senderId)
      /\ \A g \in GroupIds :
           Len(groupMessages'[g]) = Len(groupMessages[g]) + 1
             => /\ g \in DOMAIN Groups
                /\ Includes(Groups[g].participants,
                            groupMessages'[g][Len(groupMessages'[g])].senderId) ]_vars

\* ------------------------------------------- message actions: specs ----

\* What is typed in the edit input.
EditTexts == { <<" ">>, <<"e">> }

\* The client has written no message yet.
HasSentNothing(user) ==
  \A i \in DOMAIN Messages : Messages[i].senderId # user

\* Two clients write one message each; the first client lists the messages
\* and edits.
NextEditing ==
  \/ \E user \in SenderClients, text \in SenderTexts :
       HasSentNothing(user) /\ sendMessage(user, text)
  \/ \E i \in 1..MaxMsgs : ServerAccept(i)
  \/ \E i \in 1..MaxMsgs : ServerAcceptEdit(i)
  \/ \E user \in MemberCreators : MessagesSnapshot(user)
  \/ \E user \in MemberCreators, messageId \in 1..MaxMsgs :
       EditMenuItem(user, messageId)
  \/ \E user \in MemberCreators, text \in EditTexts : EditInput(user, text)
  \/ \E user \in MemberCreators : SaveButton(user)

\* Editing texts and uploads while the first client goes from one
\* conversation to another.
NextEdit ==
  \/ NextEditing
  \/ \E user \in SenderClients, type \in MediaTypes :
       HasSentNothing(user) /\ uploadMedia(user, type)
  \/ \E user \in MemberCreators, otherUserId \in Users :
       startConversation(user, otherUserId)
  \/ \E user \in SenderClients : ConversationsSnapshot(user)
  \/ \E user \in SenderClients, conversationId \in Range(ConvIds) :
       ConversationRow(user, conversationId)

SpecEdit == Init /\ [][NextEdit]_vars

\* The client that shares the first client's conversation.
Viewers == {"u2"}

\* Editing and replying in one conversation while time passes.
NextEditTime ==
  \/ NextEditing
  \/ Tick
  \/ \E user \in MemberCreators, otherUserId \in Viewers :
       startConversation(user, otherUserId)
  \/ \E user \in Viewers : ConversationsSnapshot(user)
  \/ \E user \in Viewers, conversationId \in Range(ConvIds) :
       ConversationRow(user, conversationId)
  \/ \E user \in MemberCreators, messageId \in 1..MaxMsgs :
       ReplyMenuItem(user, messageId)

SpecEditTime == Init /\ [][NextEditTime]_vars

\* -------------------------------------------- claims on message edits ----

\* The user whose saveEditMessage the step is, on message i.
Saved(user, i) ==
  /\ editingMessage[user] = <<i>>
  /\ editingMessage'[user] = <<>>
  /\ Messages'[i] # Messages[i]

\* C15: a step changes the content of a message only as the saveEditMessage
\* of the message's sender.
C15_OnlySenderEdits ==
  [][ \A i \in DOMAIN Messages :
        Messages'[i].content # Messages[i].content
          => \E user \in Users : Saved(user, i) /\ Messages[i].senderId = user ]_vars

\* C15 witness: a user has edited a message of its own while its list showed
\* a message of another sender.
C15_EditedBesideAnothersMessage ==
  \E i \in DOMAIN Messages, j \in DOMAIN Messages :
    /\ Messages[i].type # "system" /\ Messages[j].type # "system"
    /\ Messages[i].edited
    /\ Messages[j].senderId # Messages[i].senderId
    /\ j \in Shown(Messages[i].senderId)

\* C16: saveEditMessage leaves senderId, conversationId, timestamp, replyTo
\* and forwardedMessageId as they are and sets edited; an editTimestamp the
\* server has set is not earlier than the message's timestamp.
C16_EditKeepsOtherFields ==
  [][ \A i \in DOMAIN Messages :
        /\ (\E user \in Users : Saved(user, i))
              => /\ Messages'[i].senderId = Messages[i].senderId
                 /\ Messages'[i].conversationId = Messages[i].conversationId
                 /\ Messages'[i].timestamp = Messages[i].timestamp
                 /\ Messages'[i].replyTo = Messages[i].replyTo
                 /\ Messages'[i].forwardedMessageId = Messages[i].forwardedMessageId
                 /\ Messages'[i].edited
                 /\ Messages'[i].editTimestamp # <<>>
        /\ (Messages'[i].type # "system" /\ Messages'[i].editTimestamp \notin {<<>>, <<0>>})
              => /\ Messages'[i].timestamp # 0
                 /\ Messages'[i].editTimestamp[1] >= Messages'[i].timestamp ]_vars

\* C16 witness: a message that replies to another has been edited, and the
\* server has set its editTimestamp, later than its timestamp.
C16_ReplyEditedLater ==
  \E i \in DOMAIN Messages :
    /\ Messages[i].type # "system"
    /\ Messages[i].edited
    /\ Messages[i].replyTo # <<>>
    /\ Messages[i].timestamp # 0
    /\ Messages[i].editTimestamp \notin {<<>>, <<0>>}
    /\ Messages[i].editTimestamp[1] > Messages[i].timestamp

\* C17: a saveEditMessage of a message that is not a text leaves its type as
\* it is and its content the locator of the uploaded file.
C17_MediaStaysMedia ==
  [][ \A i \in DOMAIN Messages :
        (Messages[i].type \in MediaTypes /\ \E user \in Users : Saved(user, i))
          => /\ Messages'[i].type = Messages[i].type
             /\ Messages'[i].content = MediaUrl ]_vars

\* ------------------------------------------ message deletion: spec ----

\* Two clients write to one conversation; the first client lists the
\* messages and is the only one to delete.
NextDelete ==
  \/ \E user \in MemberCreators, otherUserId \in Viewers :
       startConversation(user, otherUserId)
  \/ \E user \in Viewers : ConversationsSnapshot(user)
  \/ \E user \in Viewers, conversationId \in Range(ConvIds) :
       ConversationRow(user, conversationId)
  \/ \E user \in SenderClients, text \in SenderTexts : sendMessage(user, text)
  \/ \E i \in 1..MaxMsgs : ServerAccept(i)
  \/ \E user \in MemberCreators : MessagesSnapshot(user)
  \/ \E user \in MemberCreators, messageId \in 1..MaxMsgs :
       DeleteMenuItem(user, messageId)
  \/ \E user \in MemberCreators, messageId \in 1..MaxMsgs :
       SelectMenuItem(user, messageId)
  \/ \E user \in MemberCreators : DeleteSelectedButton(user)
  \/ \E user \in MemberCreators : DeleteAllButton(user)

SpecDelete == Init /\ [][NextDelete]_vars

\* C18: a message of a direct conversation is deleted only by its sender.
\* Under SpecDelete the clients of MemberCreators are the only ones to
\* delete, so every message a step deletes has one of them as its sender.
C18_OnlySenderDeletes ==
  [][ \A i \in deletedMessages' \ deletedMessages :
        Messages[i].senderId \in MemberCreators ]_vars

\* ----------------------------------------------- replies: spec ----

\* Two clients write; the first client lists the messages, replies, forwards,
\* deletes its own messages and goes from one conversation to another.
NextReply ==
  \/ \E user \in MemberCreators, otherUserId \in Users :
       startConversation(user, otherUserId)
  \/ \E user \in SenderClients : ConversationsSnapshot(user)
  \/ \E user \in SenderClients, conversationId \in Range(ConvIds) :
       ConversationRow(user, conversationId)
  \/ \E user \in SenderClients, text \in SenderTexts : sendMessage(user, text)
  \/ \E i \in 1..MaxMsgs : ServerAccept(i)
  \/ \E user \in MemberCreators : MessagesSnapshot(user)
  \/ \E user \in MemberCreators, messageId \in 1..MaxMsgs :
       ReplyMenuItem(user, messageId)
  \/ \E user \in MemberCreators, messageId \in 1..MaxMsgs :
       ForwardMenuItem(user, messageId)
  \/ \E user \in MemberCreators, messageId \in 1..MaxMsgs :
       DeleteMenuItem(user, messageId)

SpecReply == Init /\ [][NextReply]_vars

\* C19: a message whose replyTo names a deleted message is still delivered
\* by the listener as it is stored, and where the listener found no message
\* to reply to, what is rendered differs from the rendering of a message
\* without replyTo.
C19_DeletedReplyTargetShown ==
  \A user \in Users : \A k \in DOMAIN messages[user] :
    LET message == messages[user][k]
        stored == Messages[message.id]
    IN  (message.id \notin deletedMessages /\ stored.replyTo # <<>>)
          => /\ message.content = stored.content
             /\ message.replyToMessage = <<>>
                  => renderMessageContent(message)
                       # renderMessageContent(
                           [message EXCEPT !.replyToMessage = <<>>])

\* C20: every stored message with a replyTo names a message written before
\* it in the same conversation.
C20_ReplyToSameConversation ==
  \A i \in DOMAIN Messages \ deletedMessages :
    (Messages[i].type # "system" /\ Messages[i].replyTo # <<>>)
      => /\ Messages[i].replyTo[1] < i
         /\ Messages[Messages[i].replyTo[1]].conversationId
              = Messages[i].conversationId

\* --------------------------------------------------- read state: claims ----

\* C21: once a user has read a conversation (the chat view of the user shows
\* its messages), the user is in readBy of every message shown and the
\* user's unreadCount on the conversation is 0.
C21_ReadAfterViewing ==
  \A user \in Users : \A k \in DOMAIN messages[user] :
    LET stored == Messages[messages[user][k].id]
    IN  /\ Includes(stored.readBy, user)
        /\ \A id \in DOMAIN Conversations :
             (id = stored.conversationId /\ user \in DOMAIN Conversations[id].unreadCount)
               => Conversations[id].unreadCount[user] = 0

\* No step of any client changes read or readBy of a stored message, nor
\* the unreadCount of a conversation.
C21_ReadStateNeverWritten ==
  [][ /\ \A i \in DOMAIN Messages :
           /\ Messages'[i].read = Messages[i].read
           /\ Messages'[i].readBy = Messages[i].readBy
      /\ \A id \in DOMAIN Conversations :
           Conversations'[id].unreadCount = Conversations[id].unreadCount ]_vars

\* --------------------------------------------------- content: claims ----

\* One client writes a message to a direct conversation, edits it, and
\* writes to a group, typing blank and non-blank texts.
NextContent ==
  \/ \E user \in MemberCreators, otherUserId \in Viewers :
       startConversation(user, otherUserId)
  \/ \E user \in MemberCreators, text \in TextInputs :
       HasSentNothing(user) /\ sendMessage(user, text)
  \/ \E i \in 1..MaxMsgs : ServerAccept(i)
  \/ \E i \in 1..MaxMsgs : ServerAcceptEdit(i)
  \/ \E user \in MemberCreators : MessagesSnapshot(user)
  \/ \E user \in MemberCreators, messageId \in 1..MaxMsgs :
       EditMenuItem(user, messageId)
  \/ \E user \in MemberCreators, text \in EditTexts : EditInput(user, text)
  \/ \E user \in MemberCreators : SaveButton(user)
  \/ \E user \in MemberCreators, name \in NameInputs, selected \in SUBSET Viewers :
       createGroup(user, name, selected)
  \/ \E user \in MemberCreators : fetchGroupData(user)
  \/ \E user \in MemberCreators, text \in TextInputs : sendGroupMessage(user, text)
  \/ \E user \in MemberCreators : updateGroupLastMessage(user)

SpecContent == Init /\ [][NextContent]_vars

\* C22: no message with empty content is ever stored: every message of the
\* Messages collection and of a group's messages has a content that is not
\* empty after trimming (a send or a save with a blank text writes nothing).
C22_NoEmptyContent ==
  /\ \A i \in DOMAIN Messages :
       Messages[i].type # "system" => Trim(Messages[i].content) # <<>>
  /\ \A g \in GroupIds : \A k \in DOMAIN groupMessages[g] :
       Trim(groupMessages[g][k].text) # <<>>

\* C22: a message has been edited and its row now holds a blank edit
\* text, with a group message stored as well.
C22_BlankEditTextAfterEdit ==
  /\ \E user \in Users :
       /\ EditRow(user)
       /\ editText[user] # <<>>
       /\ Trim(editText[user]) = <<>>
       /\ Messages[editingMessage[user][1]].edited
  /\ \E g \in GroupIds : groupMessages[g] # <<>>

\* ----------------------------------------- DashboardPage: the profile ----

\* What a user can type in the settings tab and in the password prompt.
DisplayNameInputs == { <<"n", "u1">>, <<"n", "x">> }
EmailInputs == { <<"e", "u1">>, <<"e", "x">> }
PasswordInputs == { <<>>, <<" ">>, <<"p", "2">> }
PromptReplies == { <<>>, <<"p", "1">>, <<"p", "2">>, <<"w">> }

\* onChange of the three inputs of the settings tab.
setDisplayName(user, value) ==
  /\ value # displayName[user]
  /\ displayName' = [displayName EXCEPT ![user] = value]
  /\ UNCHANGED <<chatVars, account, email, password, updating, alerted,
                 besideProfile, groupForm>>

setEmail(user, value) ==
  /\ value # email[user]
  /\ email' = [email EXCEPT ![user] = value]
  /\ UNCHANGED <<chatVars, account, displayName, password, updating, alerted,
                 besideProfile, groupForm>>

setPassword(user, value) ==
  /\ value # password[user]
  /\ password' = [password EXCEPT ![user] = value]
  /\ UNCHANGED <<chatVars, account, displayName, email, updating, alerted,
                 besideProfile, groupForm>>

\* The await at which a call of handleUpdateProfile stops next, from the
\* check numbered `stage` on (1: display name, 2: email, 3: password), read
\* against auth.currentUser as it is now; "done" when no update is left.
NextAwait(call, current, stage) ==
  IF stage <= 1 /\ call.displayName # current.displayName THEN "updateProfile"
  ELSE IF stage <= 2 /\ call.email # current.email THEN "updateEmail"
  ELSE IF stage <= 3 /\ Trim(call.password) # <<>> THEN "updatePassword"
  ELSE "done"

\* handleUpdateProfile runs on from the check numbered `stage` to its next
\* await, or to alert("Profile updated successfully!") and the finally block.
Proceed(user, call, current, stage) ==
  LET next == NextAwait(call, current, stage)
  IN  IF next = "done"
        THEN /\ updating' = [updating EXCEPT ![user] = <<>>]
             /\ alerted' = [alerted EXCEPT ![user] = "Profile updated successfully!"]
        ELSE /\ updating' = [updating EXCEPT ![user] = <<[call EXCEPT !.pc = next]>>]
             /\ UNCHANGED alerted

\* The catch and finally blocks: alert(err.message), setUpdating(false).
Caught(user, message) ==
  /\ updating' = [updating EXCEPT ![user] = <<>>]
  /\ alerted' = [alerted EXCEPT ![user] = message]

\* handleUpdateProfile, from the click on the button (disabled while a call
\* is in flight) to its first await, with the reply given to the prompt.
\* The call works on the values of the inputs as they were at the click.
handleUpdateProfile(user, reauthPassword) ==
  /\ updating[user] = <<>>
  /\ LET call == [ pc |-> "start",
                   displayName |-> displayName[user],
                   email |-> email[user],
                   password |-> password[user],
                   credential |-> reauthPassword,
                   reauth |-> "notRequired" ]
     IN  IF email[user] # account[user].email \/ Trim(password[user]) # <<>>
           THEN IF reauthPassword = <<>>
                  THEN Caught(user, "Reauthentication required.")
                  ELSE /\ updating' =
                            [updating EXCEPT ![user] =
                               <<[call EXCEPT !.pc = "reauthenticateWithCredential",
                                              !.reauth = "pending"]>>]
                       /\ UNCHANGED alerted
           ELSE Proceed(user, call, account[user], 1)
  /\ <<updating'[user], alerted'[user]>> # <<updating[user], alerted[user]>>
  /\ UNCHANGED <<chatVars, account, displayName, email, password,
                 besideProfile, groupForm>>

\* reauthenticateWithCredential resolves: the credential is the account's
\* password.
reauthenticateWithCredential(user) ==
  /\ updating[user] # <<>>
  /\ updating[user][1].pc = "reauthenticateWithCredential"
  /\ updating[user][1].credential = account[user].password
  /\ Proceed(user, [updating[user][1] EXCEPT !.reauth = "succeeded"], account[user], 1)
  /\ UNCHANGED <<chatVars, account, displayName, email, password,
                 besideProfile, groupForm>>

\* reauthenticateWithCredential as it would be with its rejection swallowed:
\* the call goes on to the updates.
reauthenticateWithCredentialIgnored(user) ==
  /\ updating[user] # <<>>
  /\ updating[user][1].pc = "reauthenticateWithCredential"
  /\ Proceed(user, [updating[user][1] EXCEPT !.reauth = "failed"], account[user], 1)
  /\ UNCHANGED <<chatVars, account, displayName, email, password,
                 besideProfile, groupForm>>

\* reauthenticateWithCredential rejects (a wrong password, or the request
\* fails): the catch block.
reauthenticateWithCredentialFails(user) ==
  /\ updating[user] # <<>>
  /\ updating[user][1].pc = "reauthenticateWithCredential"
  /\ Caught(user, "auth/error")
  /\ UNCHANGED <<chatVars, account, displayName, email, password,
                 besideProfile, groupForm>>

\* updateProfile, updateEmail and updatePassword resolve: the account is
\* changed and the call runs on.
updateProfile(user) ==
  /\ updating[user] # <<>>
  /\ updating[user][1].pc = "updateProfile"
  /\ account' = [account EXCEPT ![user].displayName = updating[user][1].displayName]
  /\ Proceed(user, updating[user][1], account'[user], 2)
  /\ UNCHANGED <<chatVars, displayName, email, password,
                 besideProfile, groupForm>>

updateEmail(user) ==
  /\ updating[user] # <<>>
  /\ updating[user][1].pc = "updateEmail"
  /\ account' = [account EXCEPT ![user].email = updating[user][1].email]
  /\ Proceed(user, updating[user][1], account'[user], 3)
  /\ UNCHANGED <<chatVars, displayName, email, password,
                 besideProfile, groupForm>>

updatePassword(user) ==
  /\ updating[user] # <<>>
  /\ updating[user][1].pc = "updatePassword"
  /\ account' = [account EXCEPT ![user].password = updating[user][1].password]
  /\ Proceed(user, updating[user][1], account'[user], 4)
  /\ UNCHANGED <<chatVars, displayName, email, password,
                 besideProfile, groupForm>>

\* One of the three updates rejects: the catch block; what was updated
\* before stays.
updateFails(user) ==
  /\ updating[user] # <<>>
  /\ updating[user][1].pc \in {"updateProfile", "updateEmail", "updatePassword"}
  /\ Caught(user, "auth/error")
  /\ UNCHANGED <<chatVars, account, displayName, email, password,
                 besideProfile, groupForm>>

\* One user in the settings tab.
NextProfile ==
  \/ \E user \in MemberCreators, value \in DisplayNameInputs : setDisplayName(user, value)
  \/ \E user \in MemberCreators, value \in EmailInputs : setEmail(user, value)
  \/ \E user \in MemberCreators, value \in PasswordInputs : setPassword(user, value)
  \/ \E user \in MemberCreators, reply \in PromptReplies : handleUpdateProfile(user, reply)
  \/ \E user \in MemberCreators : reauthenticateWithCredential(user)
  \/ \E user \in MemberCreators : reauthenticateWithCredentialFails(user)
  \/ \E user \in MemberCreators : updateProfile(user)
  \/ \E user \in MemberCreators : updateEmail(user)
  \/ \E user \in MemberCreators : updatePassword(user)
  \/ \E user \in MemberCreators : updateFails(user)

SpecProfile == Init /\ [][NextProfile]_vars

\* C23: the email or the password of an account changes only in a call of
\* handleUpdateProfile whose reauthenticateWithCredential has resolved; no
\* field of the account changes in a call whose re-authentication is
\* pending or has failed; and a call whose prompt is cancelled or whose
\* re-authentication is rejected ends with the account as it was.
C23_UpdateOnlyAfterReauthentication ==
  [][ \A user \in Users :
        /\ account'[user] # account[user]
             => /\ updating[user] # <<>>
                /\ updating[user][1].reauth \in {"notRequired", "succeeded"}
                /\ ( \/ account'[user].email # account[user].email
                     \/ account'[user].password # account[user].password )
                     => updating[user][1].reauth = "succeeded"
        /\ ( /\ updating[user] # <<>>
             /\ updating[user][1].reauth = "pending"
             /\ updating'[user] # updating[user]
             /\ ~ ( /\ updating'[user] # <<>>
                    /\ updating'[user][1].reauth = "succeeded" ) )
             => /\ updating'[user] = <<>>
                /\ account'[user] = account[user]
        /\ ( /\ alerted'[user] = "Reauthentication required."
             /\ alerted'[user] # alerted[user] )
             => /\ updating'[user] = <<>>
                /\ account'[user] = account[user] ]_vars

\* C23: a user has changed email and password after re-authenticating, and
\* a later call, with the old password given to the prompt, was rejected.
C23_UpdatedThenRejected ==
  \E user \in Users :
    /\ account[user].email # InitialAccount(user).email
    /\ account[user].password # InitialAccount(user).password
    /\ alerted[user] = "auth/error"
    /\ updating[user] = <<>>
    /\ displayName[user] # account[user].displayName

\* ------------------------------------------------------ AuthProvider ----

\* At most MaxAuthEvents auth state changes wait for delivery, and at most
\* MaxFetches callbacks of onAuthStateChanged wait for a getDoc.
MaxAuthEvents == 2
MaxFetches == 2

UserTypes == {"admin", "general"}

\* s without its k-th element.
RemoveAt(s, k) == SubSeq(s, 1, k - 1) \o SubSeq(s, k + 1, Len(s))

\* LoginPage.handleSignIn, up to the return of signInWithEmailAndPassword
\* (with the account's password): the account is signed in on the browser
\* and the auth state change is queued.  The button is disabled while a call
\* is in flight.
handleSignIn(uid, userType) ==
  /\ signingIn = <<>>
  /\ Len(authEvents) < MaxAuthEvents
  /\ currentUser' = <<uid>>
  /\ authEvents' = Append(authEvents, <<uid>>)
  /\ signingIn' = <<[uid |-> uid, userType |-> userType]>>
  /\ UNCHANGED <<chatVars, groupForm, profileVars, directoryVars, lookupVars,
                 firebaseUser, authUser, fetches>>

\* handleSignIn, from the return of its getDoc of the collection of the
\* chosen user type: with no document there, auth.signOut(); else the
\* redirect.
handleSignInChecked ==
  /\ signingIn # <<>>
  /\ LET collection == IF signingIn[1].userType = "admin" THEN Admins ELSE General
     IN  IF signingIn[1].uid \in collection
           THEN UNCHANGED <<currentUser, authEvents>>
           ELSE /\ Len(authEvents) < MaxAuthEvents
                /\ currentUser' = <<>>
                /\ authEvents' = Append(authEvents, <<>>)
  /\ signingIn' = <<>>
  /\ UNCHANGED <<chatVars, groupForm, profileVars, directoryVars, lookupVars,
                 firebaseUser, authUser, fetches>>

\* logout: signOut(auth).
logout ==
  /\ currentUser # <<>>
  /\ Len(authEvents) < MaxAuthEvents
  /\ currentUser' = <<>>
  /\ authEvents' = Append(authEvents, <<>>)
  /\ UNCHANGED <<chatVars, groupForm, profileVars, directoryVars, lookupVars,
                 firebaseUser, authUser, fetches, signingIn>>

\* The callback of onAuthStateChanged, up to its first await: the auth
\* state changes are delivered in order; setFirebaseUser, then setUser(null)
\* for nobody signed in or the getDoc of Admins/{uid}.
onAuthStateChanged ==
  /\ authEvents # <<>>
  /\ firebaseUser' = Head(authEvents)
  /\ authEvents' = Tail(authEvents)
  /\ IF Head(authEvents) = <<>>
       THEN /\ authUser' = <<>>
            /\ UNCHANGED fetches
       ELSE /\ Len(fetches) < MaxFetches
            /\ fetches' = Append(fetches, [uid |-> Head(authEvents)[1],
                                           collection |-> "Admins"])
            /\ UNCHANGED authUser
  /\ UNCHANGED <<chatVars, groupForm, profileVars, directoryVars, lookupVars,
                 currentUser, signingIn>>

\* The callback of onAuthStateChanged, from the return of a getDoc: the
\* Admins document makes the user an admin; without it the callback goes on
\* to General/{uid}, whose document makes the user a general user; without
\* either, setUser(null).  The callbacks in flight return in any order.
getDocReturns(k) ==
  /\ k \in DOMAIN fetches
  /\ LET uid == fetches[k].uid
     IN  IF fetches[k].collection = "Admins"
           THEN IF uid \in Admins
                  THEN /\ authUser' = <<[id |-> uid, role |-> "admin"]>>
                       /\ fetches' = RemoveAt(fetches, k)
                  ELSE /\ fetches' = [fetches EXCEPT ![k].collection = "General"]
                       /\ UNCHANGED authUser
           ELSE /\ authUser' = IF uid \in General
                             THEN <<[id |-> uid, role |-> "general"]>>
                             ELSE <<>>
                /\ fetches' = RemoveAt(fetches, k)
  /\ UNCHANGED <<chatVars, groupForm, profileVars, directoryVars, lookupVars,
                 currentUser, authEvents, firebaseUser, signingIn>>

\* A getDoc of the callback rejects: the catch block, setUser(null).
getDocFails(k) ==
  /\ k \in DOMAIN fetches
  /\ authUser' = <<>>
  /\ fetches' = RemoveAt(fetches, k)
  /\ UNCHANGED <<chatVars, groupForm, profileVars, directoryVars, lookupVars,
                 currentUser, authEvents, firebaseUser, signingIn>>

\* ------------------------------------- ChatInterface: the user lookups ----

\* The lookup of ChatInterface for one user id: General/{userId} first, then
\* Admins/{userId}; <<>> when neither document exists.
LookUp(userId) ==
  IF userId \in General THEN <<[id |-> userId, role |-> "general"]>>
  ELSE IF userId \in Admins THEN <<[id |-> userId, role |-> "admin"]>>
  ELSE <<>>

\* fetchGroupMembers: the members found, in the order of participantIds.
RECURSIVE Members(_)
Members(participantIds) ==
  IF participantIds = <<>> THEN <<>>
  ELSE LookUp(Head(participantIds)) \o Members(Tail(participantIds))

\* fetchConversationData, direct branch: the other participant of the
\* conversation the ChatInterface is mounted for.  When neither document
\* exists, otherParticipant is left as it is.
fetchOtherParticipant(u) ==
  /\ selectedConversation[u] # <<>>
  /\ selectedConversation[u][1] \in DOMAIN Conversations
  /\ LET participants == Conversations[selectedConversation[u][1]].participants
         others == SelectSeq(participants, LAMBDA id : id # u)
     IN  /\ others # <<>>
         /\ LookUp(Head(others)) # <<>>
         /\ otherParticipant' = [otherParticipant EXCEPT ![u] = LookUp(Head(others))]
  /\ otherParticipant'[u] # otherParticipant[u]
  /\ UNCHANGED <<chatVars, groupForm, profileVars, directoryVars, authVars, groupMemberProfiles>>

\* fetchConversationData, group branch: what fetchGroupMembers passes to
\* setGroupMembers for the participants of the group.
fetchGroupMemberProfiles(u, groupId) ==
  /\ groupId \in GroupsQuery(u)
  /\ groupMemberProfiles' =
       [groupMemberProfiles EXCEPT ![u] = Members(Groups[groupId].participants)]
  /\ groupMemberProfiles'[u] # groupMemberProfiles[u]
  /\ UNCHANGED <<chatVars, groupForm, profileVars, directoryVars, authVars, otherParticipant>>

\* The store's two collections of users hold any documents.
InitResolve ==
  /\ Conversations = <<>>
  /\ Messages = <<>>
  /\ now = 1
  /\ conversations = [u \in Users |-> {}]
  /\ selectedConversation = [u \in Users |-> <<>>]
  /\ messages = [u \in Users |-> <<>>]
  /\ Groups = <<>>
  /\ groupMessages = [g \in GroupIds |-> <<>>]
  /\ selectedGroup = [u \in Users |-> <<>>]
  /\ group = [u \in Users |-> <<>>]
  /\ sending = [u \in Users |-> <<>>]
  /\ groupInfo = [u \in Users |-> <<>>]
  /\ groupMembers = [u \in Users |-> <<>>]
  /\ availableUsers = [u \in Users |-> {}]
  /\ selectedUsersToAdd = [u \in Users |-> {}]
  /\ showGroupInfo = [u \in Users |-> FALSE]
  /\ showAddMembers = [u \in Users |-> FALSE]
  /\ deletedMessages = {}
  /\ editingMessage = [u \in Users |-> <<>>]
  /\ editText = [u \in Users |-> <<>>]
  /\ selectedMessages = [u \in Users |-> {}]
  /\ replyingTo = [u \in Users |-> <<>>]
  /\ forwarding = [u \in Users |-> <<>>]
  /\ account = [u \in Users |-> InitialAccount(u)]
  /\ displayName = [u \in Users |-> InitialAccount(u).displayName]
  /\ email = [u \in Users |-> InitialAccount(u).email]
  /\ password = [u \in Users |-> <<>>]
  /\ updating = [u \in Users |-> <<>>]
  /\ alerted = [u \in Users |-> ""]
  /\ General \in SUBSET Users
  /\ Admins \in SUBSET Users
  /\ InitAuth
  /\ groupForm = [u \in Users |-> EmptyGroupForm]
  /\ InitListeners
  /\ InitSignUp

\* One account signs in on a browser while the chat view of another user
\* looks the same account up, as the other participant of a conversation
\* and as a member of a group.
NextResolve ==
  \/ \E uid \in Viewers, userType \in UserTypes : handleSignIn(uid, userType)
  \/ handleSignInChecked
  \/ onAuthStateChanged
  \/ \E k \in 1..MaxFetches : getDocReturns(k)
  \/ \E u \in MemberCreators, otherUserId \in Viewers : startConversation(u, otherUserId)
  \/ \E u \in MemberCreators : fetchOtherParticipant(u)
  \/ \E u \in MemberCreators, name \in MemberNames, selected \in SUBSET Viewers :
       createGroup(u, name, selected)
  \/ \E u \in MemberCreators, groupId \in GroupIds : fetchGroupMemberProfiles(u, groupId)

SpecResolve == InitResolve /\ [][NextResolve]_vars

\* The roles the resolvers have assigned to a user id: AuthProvider's user,
\* the chat views' otherParticipant and their group members.
RolesOf(userId) ==
  { authUser[k].role : k \in { j \in DOMAIN authUser : authUser[j].id = userId } }
  \cup { otherParticipant[u][1].role :
           u \in { v \in Users : otherParticipant[v] # <<>>
                                 /\ otherParticipant[v][1].id = userId } }
  \cup UNION { { groupMemberProfiles[u][k].role :
                   k \in { j \in DOMAIN groupMemberProfiles[u] :
                             groupMemberProfiles[u][j].id = userId } } : u \in Users }

GroupNameInputs == { <<" ">>, <<"g">>, <<" ", "g", " ">> }

\* onChange of the group name input.
setNewGroupName(u, name) ==
  /\ name # groupForm[u].newGroupName
  /\ groupForm' = [groupForm EXCEPT ![u].newGroupName = name]
  /\ UNCHANGED <<chatVars, besideChat>>

\* toggleUserSelection(userId), from a row of the form's list of general
\* users, which leaves out the signed-in user.
toggleUserSelection(u, userId) ==
  /\ userId \in General \ {u}
  /\ groupForm' =
       [groupForm EXCEPT ![u].selectedUsersForGroup =
          IF userId \in @ THEN @ \ {userId} ELSE @ \cup {userId}]
  /\ UNCHANGED <<chatVars, besideChat>>

\* The Create Group button, disabled while the name is blank or nobody is
\* selected: createGroup on the form as it is.
CreateGroupButton(u) ==
  /\ Trim(groupForm[u].newGroupName) # <<>>
  /\ groupForm[u].selectedUsersForGroup # {}
  /\ createGroup(u, groupForm[u].newGroupName, groupForm[u].selectedUsersForGroup)

\* Two users fill in the form and create a group.
NextCreateGroup ==
  \/ \E u \in SenderClients, name \in GroupNameInputs : setNewGroupName(u, name)
  \/ \E u \in SenderClients, userId \in Users : toggleUserSelection(u, userId)
  \/ \E u \in SenderClients : CreateGroupButton(u)

SpecCreateGroup == Init /\ [][NextCreateGroup]_vars

\* C25: every group written by createGroup has a name that is trimmed and
\* not empty, createdBy the creating user, as participants the users
\* selected in the form and the creator, each once, and as admins the
\* creator alone; and nothing is written while the name is blank or nobody
\* is selected.
C25_CreatedGroupWellFormed ==
  [][ \A id \in DOMAIN Groups' \ DOMAIN Groups :
        \E u \in Users :
          LET form == groupForm[u]
              written == Groups'[id]
          IN  /\ selectedGroup'[u] = <<id>>
              /\ Trim(form.newGroupName) # <<>>
              /\ form.selectedUsersForGroup # {}
              /\ written.name = Trim(form.newGroupName)
              /\ written.createdBy = u
              /\ Range(written.participants) = form.selectedUsersForGroup \cup {u}
              /\ Len(written.participants) = Cardinality(Range(written.participants))
              /\ written.admins = <<u>> ]_vars

\* C25: a group has been created from a padded name and two selected users,
\* while another user holds a form with a blank name and a user selected.
C25_GroupCreatedBesideBlankForm ==
  /\ \E id \in DOMAIN Groups :
       /\ Len(Groups[id].participants) = 3
       /\ Groups[id].name = <<"g">>
  /\ \E u \in Users :
       /\ groupForm[u].newGroupName = <<" ">>
       /\ groupForm[u].selectedUsersForGroup # {}

\* ------------------------------------------- membership writes: claims ----

MaxEnriching == 2

\* snapshot.docs of the messages listener of `user`: the documents of the
\* query, each with its id.
SnapshotDocs(user, conversationId) ==
  LET docs == MessagesQuery(user, conversationId)
  IN  [ k \in DOMAIN docs |-> [ id |-> docs[k], data |-> Messages[docs[k]] ] ]

\* baseMessages: snapshot.docs.map(...), with
\* timestamp: doc.data().timestamp?.toDate() || new Date().
baseMessages(docs, clock) ==
  [ k \in DOMAIN docs |->
      [ id |-> docs[k].id,
        timestamp |-> ToDate(docs[k].data.timestamp, clock),
        content |-> docs[k].data.content,
        replyTo |-> docs[k].data.replyTo,
        forwardedMessageId |-> docs[k].data.forwardedMessageId ] ]

\* replyIds and forwardIds together: the ids the callback has to fetch.
RelatedIds(base) ==
  { base[k].replyTo[1] : k \in { j \in DOMAIN base : base[j].replyTo # <<>> } }
    \cup { base[k].forwardedMessageId[1] :
             k \in { j \in DOMAIN base : base[j].forwardedMessageId # <<>> } }

\* enrichedMessages: each message with the message it replies to as
\* fetchRelatedMessages found it.
enrichedMessages(base) ==
  [ k \in DOMAIN base |->
      [ id |-> base[k].id,
        timestamp |-> base[k].timestamp,
        content |-> base[k].content,
        replyToMessage |-> fetchRelatedMessages(base[k].replyTo) ] ]

\* The async onSnapshot callback of the messages listener, up to its await.
\* The listener is the one the effect subscribed for the conversationId the
\* component has now; it delivers when the result of its query is not the
\* one it delivered last.  With nothing to fetch, fetchRelatedMessages
\* returns at once and the callback goes on to setMessages before any
\* other event is handled; with ids to fetch the callback waits for getDoc.
onSnapshot(user) ==
  /\ selectedConversation[user] # <<>>
  /\ LET conversationId == selectedConversation[user][1]
         docs == SnapshotDocs(user, conversationId)
         delivered == [ conversationId |-> conversationId, docs |-> docs ]
     IN  /\ snapshot[user] # <<delivered>>
         /\ snapshot' = [snapshot EXCEPT ![user] = <<delivered>>]
         /\ \E clock \in ClientClock :
              LET base == baseMessages(docs, clock)
              IN  IF RelatedIds(base) = {}
                    THEN /\ messages' =
                              [messages EXCEPT ![user] = enrichedMessages(base)]
                         /\ UNCHANGED enriching
                    ELSE /\ Len(enriching[user]) < MaxEnriching
                         /\ enriching' =
                              [enriching EXCEPT ![user] =
                                 Append(@, [ conversationId |-> conversationId,
                                             baseMessages |-> base ])]
                         /\ UNCHANGED messages
  /\ UNCHANGED <<Conversations, Messages, now, conversations,
                 selectedConversation, Groups, groupChatVars, messageVars,
                 memberVars, groupChatMessages, sideVars>>

\* The rest of a callback that waited: Promise.all has resolved, and
\* setMessages(enrichedMessages) runs.  The callbacks resume in the order
\* their fetches finish, and nothing in the callback looks at the
\* conversationId of the component or at the snapshots delivered since.
setMessages(user, k) ==
  /\ k \in DOMAIN enriching[user]
  /\ messages' =
       [messages EXCEPT ![user] = enrichedMessages(enriching[user][k].baseMessages)]
  /\ enriching' = [enriching EXCEPT ![user] = RemoveAt(@, k)]
  /\ UNCHANGED <<Conversations, Messages, now, conversations,
                 selectedConversation, Groups, groupChatVars, messageVars,
                 memberVars, snapshot, groupChatMessages, sideVars>>

\* One client with two conversations: it writes, replies, deletes its own
\* messages and goes from one conversation to the other while its listener's
\* callbacks wait for the messages replied to.  The listener shows the
\* client its own writes before the server has accepted them.
NextEnrich ==
  \/ \E user \in MemberCreators, otherUserId \in Users :
       startConversation(user, otherUserId)
  \/ \E user \in MemberCreators : ConversationsSnapshot(user)
  \/ \E user \in MemberCreators, conversationId \in Range(ConvIds) :
       ConversationRow(user, conversationId)
  \/ \E user \in MemberCreators, text \in SenderTexts : sendMessage(user, text)
  \/ \E user \in MemberCreators : onSnapshot(user)
  \/ \E user \in MemberCreators, k \in 1..MaxEnriching : setMessages(user, k)
  \/ \E user \in MemberCreators, messageId \in 1..MaxMsgs :
       ReplyMenuItem(user, messageId)
  \/ \E user \in MemberCreators, messageId \in 1..MaxMsgs :
       DeleteMenuItem(user, messageId)

SpecEnrich == Init /\ [][NextEnrich]_vars

\* The ids of the messages of a list of documents or of rows.
IdsOf(list) == [ k \in DOMAIN list |-> list[k].id ]

\* C27: once no callback of the messages listener waits any more, and the
\* listener has delivered a snapshot for the conversation the component
\* shows, the message list is the list of that most recent snapshot.
C27_ListIsLatestSnapshot ==
  \A user \in Users :
    ( /\ enriching[user] = <<>>
      /\ selectedConversation[user] # <<>>
      /\ snapshot[user] # <<>>
      /\ snapshot[user][1].conversationId = selectedConversation[user][1] )
      => IdsOf(messages[user]) = IdsOf(snapshot[user][1].docs)

\* C27 (support): the same, for the conversation of the list alone: the
\* messages shown are messages of the conversation the component shows.
C27_ListOfCurrentConversation ==
  \A user \in Users :
    ( /\ enriching[user] = <<>>
      /\ selectedConversation[user] # <<>>
      /\ snapshot[user] # <<>>
      /\ snapshot[user][1].conversationId = selectedConversation[user][1] )
      => \A k \in DOMAIN messages[user] :
           Messages[messages[user][k].id].conversationId
             = selectedConversation[user][1]

\* ------------------------------------------------ AuthProvider: spec ----

\* The accounts that sign in under SpecAuth; each has its General document.
AuthUids == {"u1", "u2"}

\* The Logout button of the dashboard, which renders nothing without a user
\* of the AuthProvider.
LogoutButton ==
  /\ authUser # <<>>
  /\ logout

\* The login page and the AuthProvider: sign-ins under either user type,
\* sign-outs, and the callbacks of onAuthStateChanged with their getDocs
\* returning in any order.
NextAuth ==
  \/ \E uid \in AuthUids, userType \in UserTypes : handleSignIn(uid, userType)
  \/ handleSignInChecked
  \/ LogoutButton
  \/ onAuthStateChanged
  \/ \E k \in 1..MaxFetches : getDocReturns(k)
  \/ \E k \in 1..MaxFetches : getDocFails(k)

SpecAuth == Init /\ [][NextAuth]_vars

\* Every auth-state callback has completed, and so has handleSignIn.
AuthSettled ==
  /\ authEvents = <<>>
  /\ fetches = <<>>
  /\ signingIn = <<>>

\* C28: once every pending auth-state callback has completed, user is null
\* when firebaseUser is null, and a user that is set is the one of
\* firebaseUser.
C28_UserMatchesFirebaseUser ==
  AuthSettled =>
    IF firebaseUser = <<>> THEN authUser = <<>>
    ELSE authUser # <<>> => authUser[1].id = firebaseUser[1]

\* ---------------------------------- GroupChatInterface: the listener ----

\* orderBy("timestamp", "asc") on a group's messages: whether document i
\* comes before document j.  A pending server timestamp orders after every
\* accepted one.
GroupBefore(sent, i, j) ==
  LET ti == sent[i].timestamp
      tj == sent[j].timestamp
  IN  IF ti = 0 /\ tj = 0 THEN i < j
      ELSE IF ti = 0 THEN FALSE
      ELSE IF tj = 0 THEN TRUE
      ELSE ti < tj \/ (ti = tj /\ i < j)

RECURSIVE GroupOrderBy(_, _)
GroupOrderBy(sent, S) ==
  IF S = {} THEN <<>>
  ELSE LET first == CHOOSE i \in S : \A j \in S \ {i} : GroupBefore(sent, i, j)
       IN  <<first>> \o GroupOrderBy(sent, S \ {first})

\* The documents the group's messages listener of `user` sees: the accepted
\* ones and the user's own pending writes.
GroupMessagesQuery(user, groupId) ==
  LET sent == groupMessages[groupId]
  IN  GroupOrderBy(sent, { i \in DOMAIN sent :
                             sent[i].timestamp # 0 \/ sent[i].senderId = user })

\* timestamp: doc.data().timestamp?.toDate(): undefined (<<>>) while the
\* server timestamp of the document is pending.
OptionalToDate(timestamp) == IF timestamp = 0 THEN <<>> ELSE <<timestamp>>

\* messagesData of the group's listener: snapshot.docs.map(...).
messagesData(user, groupId) ==
  LET docs == GroupMessagesQuery(user, groupId)
  IN  [ k \in DOMAIN docs |->
          [ id |-> docs[k],
            senderId |-> groupMessages[groupId][docs[k]].senderId,
            text |-> groupMessages[groupId][docs[k]].text,
            timestamp |-> OptionalToDate(groupMessages[groupId][docs[k]].timestamp) ] ]

\* onSnapshot callback of the group's messages listener: setMessages.
GroupMessagesSnapshot(user) ==
  /\ selectedGroup[user] # <<>>
  /\ groupChatMessages[user] # messagesData(user, selectedGroup[user][1])
  /\ groupChatMessages' =
       [groupChatMessages EXCEPT ![user] = messagesData(user, selectedGroup[user][1])]
  /\ UNCHANGED <<convVars, Groups, groupChatVars, messageVars, memberVars,
                 listenerVars, sideVars>>

\* The message list of GroupChatInterface is rendered once the group is
\* loaded and has messages.
GroupListRendered(user) ==
  /\ selectedGroup[user] # <<>>
  /\ group[user] # <<>>
  /\ groupChatMessages[user] # <<>>

\* The rows of the list for which showSenderInfo gets as far as
\* message.timestamp!.getTime() - messages[index - 1].timestamp!.getTime():
\* not the first row, and the sender is the one of the row before.
ComparesTimestamps(list, index) ==
  /\ index > 1
  /\ list[index - 1].senderId = list[index].senderId

\* The members of the group write to it, the clock running, and their
\* listeners deliver.
GroupTimeTexts == { <<"h", "i">> }

NextGroupTime ==
  \/ Tick
  \/ \E user \in MemberCreators, selected \in {Viewers} :
       createGroup(user, <<"g">>, selected)
  \/ \E user \in SenderClients, groupId \in GroupIds : selectGroup(user, groupId)
  \/ \E user \in SenderClients : fetchGroupData(user)
  \/ \E user \in SenderClients, text \in GroupTimeTexts : sendGroupMessage(user, text)
  \/ \E user \in SenderClients : updateGroupLastMessage(user)
  \/ \E user \in SenderClients : GroupMessagesSnapshot(user)

SpecGroupTime == Init /\ [][NextGroupTime]_vars

\* C29: every message of the list GroupChatInterface renders has a defined
\* timestamp.
C29_RenderedTimestampsDefined ==
  \A user \in Users :
    GroupListRendered(user)
      => \A k \in DOMAIN groupChatMessages[user] :
           groupChatMessages[user][k].timestamp # <<>>

\* C29 (support): the timestamps the render step calls getTime() on are
\* defined.
C29_GetTimeOnDefined ==
  \A user \in Users :
    GroupListRendered(user)
      => \A k \in DOMAIN groupChatMessages[user] :
           ComparesTimestamps(groupChatMessages[user], k)
             => /\ groupChatMessages[user][k].timestamp # <<>>
                /\ groupChatMessages[user][k - 1].timestamp # <<>>

\* ------------------------------------------------ LoginPage: sign-up ----

\* The address the first block of handleSignUp compares email with.
FirstAdminEmail == "admin@yourcompany.com"

\* What is typed in the fields of the login page.
SignUpEmails == {"", FirstAdminEmail, "new@example.com"}
SignUpPasswords == {"", "secret1"}
SignUpNames == {"", "Ada"}

\* user.uid of the accounts createUserWithEmailAndPassword creates, in the
\* order they are created.
NewUids == <<"n1", "n2">>

\* The texts setError is called with.
FillInAllFields == "Please fill in all fields"
NoAdminSignUp == "Admin accounts cannot be created through signup"
ErrorMessage == "error.message"

\* The User Type select, rendered above the tabs: setUserType.
setUserType(userType) ==
  /\ loginPage.userType # userType
  /\ loginPage' = [loginPage EXCEPT !.userType = userType]
  /\ UNCHANGED <<chatVars, groupForm, profileVars, General, Admins, signingUp,
                 registered, authVars, lookupVars>>

\* The inputs of the sign-up tab (email and password are those of the
\* sign-in tab too).
setSignUpEmail(text) ==
  /\ loginPage.email # text
  /\ loginPage' = [loginPage EXCEPT !.email = text]
  /\ UNCHANGED <<chatVars, groupForm, profileVars, General, Admins, signingUp,
                 registered, authVars, lookupVars>>

setSignUpPassword(text) ==
  /\ loginPage.password # text
  /\ loginPage' = [loginPage EXCEPT !.password = text]
  /\ UNCHANGED <<chatVars, groupForm, profileVars, General, Admins, signingUp,
                 registered, authVars, lookupVars>>

setSignUpDisplayName(text) ==
  /\ loginPage.tab = "signup"
  /\ loginPage.displayName # text
  /\ loginPage' = [loginPage EXCEPT !.displayName = text]
  /\ UNCHANGED <<chatVars, groupForm, profileVars, General, Admins, signingUp,
                 registered, authVars, lookupVars>>

\* The triggers of the tabs: Sign Up is disabled while userType is admin;
\* the tab that is shown stays shown when userType changes.
TabsTrigger(tab) ==
  /\ loginPage.tab # tab
  /\ tab = "signup" => loginPage.userType # "admin"
  /\ loginPage' = [loginPage EXCEPT !.tab = tab]
  /\ UNCHANGED <<chatVars, groupForm, profileVars, General, Admins, signingUp,
                 registered, authVars, lookupVars>>

\* The block of handleSignUp that the inputs lead to: none when a field is
\* empty or when userType is admin with another address than the first
\* block's.
SignUpBlock(page) ==
  IF page.email = "" \/ page.password = "" \/ page.displayName = "" THEN "fields"
  ELSE IF page.userType = "admin" /\ page.email = FirstAdminEmail THEN "firstAdmin"
  ELSE IF page.userType = "admin" THEN "refused"
  ELSE "general"

\* handleSignUp, up to its first await.  The values of the call are those of
\* the render the button was clicked in.
handleSignUp ==
  /\ signingUp = <<>>
  /\ LET block == SignUpBlock(loginPage)
     IN  IF block = "fields"
           THEN /\ loginPage' = [loginPage EXCEPT !.error = FillInAllFields]
                /\ UNCHANGED signingUp
         ELSE IF block = "refused"
           THEN /\ loginPage' = [loginPage EXCEPT !.error = NoAdminSignUp]
                /\ UNCHANGED signingUp
         ELSE /\ loginPage' = [loginPage EXCEPT !.loading = TRUE, !.error = ""]
              /\ signingUp' = <<[ block |-> block,
                                  userType |-> loginPage.userType,
                                  email |-> loginPage.email,
                                  uid |-> <<>> ]>>
  /\ UNCHANGED <<chatVars, groupForm, profileVars, General, Admins, registered,
                 authVars, lookupVars>>

\* The Sign Up button of the sign-up tab, disabled while loading.
SignUpButton ==
  /\ loginPage.tab = "signup"
  /\ ~loginPage.loading
  /\ handleSignUp

\* The catch and finally blocks of the try of handleSignUp that is running,
\* and what follows them: after the first block the code goes on to
\* if (userType === "admin"), which reports that admins cannot sign up.
SignUpCaught ==
  /\ loginPage' =
       [loginPage EXCEPT
          !.loading = FALSE,
          !.error = IF signingUp[1].userType = "admin" THEN NoAdminSignUp
                    ELSE ErrorMessage]
  /\ signingUp' = <<>>

\* createUserWithEmailAndPassword resolves: the account exists, and it is
\* the one signed in.
createUserWithEmailAndPassword ==
  /\ signingUp # <<>>
  /\ signingUp[1].uid = <<>>
  /\ \A a \in registered : a.email # signingUp[1].email
  /\ Cardinality(registered) < Len(NewUids)
  /\ Len(authEvents) < MaxAuthEvents
  /\ LET uid == NewUids[Cardinality(registered) + 1]
     IN  /\ registered' = registered \cup {[uid |-> uid, email |-> signingUp[1].email]}
         /\ signingUp' = <<[signingUp[1] EXCEPT !.uid = <<uid>>]>>
         /\ currentUser' = <<uid>>
         /\ authEvents' = Append(authEvents, <<uid>>)
  /\ UNCHANGED <<chatVars, groupForm, profileVars, General, Admins, loginPage,
                 lookupVars, firebaseUser, authUser, fetches, signingIn>>

\* createUserWithEmailAndPassword rejects (the address is in use, the
\* password is refused, the network fails): no account is created.
createUserFails ==
  /\ signingUp # <<>>
  /\ signingUp[1].uid = <<>>
  /\ SignUpCaught
  /\ UNCHANGED <<chatVars, groupForm, profileVars, General, Admins, registered,
                 authVars, lookupVars>>

\* setDoc resolves: the document of the new account is in Admins (first
\* block) or in General; router.push leaves the login page, which is mounted
\* anew when it is shown again.
setDoc ==
  /\ signingUp # <<>>
  /\ signingUp[1].uid # <<>>
  /\ IF signingUp[1].block = "firstAdmin"
       THEN /\ Admins' = Admins \cup {signingUp[1].uid[1]}
            /\ UNCHANGED General
       ELSE /\ General' = General \cup {signingUp[1].uid[1]}
            /\ UNCHANGED Admins
  /\ loginPage' = InitialLoginPage
  /\ signingUp' = <<>>
  /\ UNCHANGED <<chatVars, groupForm, profileVars, registered, authVars, lookupVars>>

\* setDoc rejects: the account stays, without a document.
setDocFails ==
  /\ signingUp # <<>>
  /\ signingUp[1].uid # <<>>
  /\ SignUpCaught
  /\ UNCHANGED <<chatVars, groupForm, profileVars, General, Admins, registered,
                 authVars, lookupVars>>

\* The login page with its sign-up tab, and the AuthProvider that follows
\* the accounts signed in.
NextSignUp ==
  \/ \E userType \in UserTypes : setUserType(userType)
  \/ \E text \in SignUpEmails : setSignUpEmail(text)
  \/ \E text \in SignUpPasswords : setSignUpPassword(text)
  \/ \E text \in SignUpNames : setSignUpDisplayName(text)
  \/ \E tab \in {"signin", "signup"} : TabsTrigger(tab)
  \/ SignUpButton
  \/ createUserWithEmailAndPassword
  \/ createUserFails
  \/ setDoc
  \/ setDocFails
  \/ onAuthStateChanged
  \/ \E k \in 1..MaxFetches : getDocReturns(k)

SpecSignUp == Init /\ [][NextSignUp]_vars

\* C30: no step of the sign-up writes a document to the Admins collection.
C30_SignUpNeverWritesAdmins ==
  [][Admins' = Admins]_vars

\* C30 (support): a call of handleSignUp made with userType admin creates no
\* account.
C30_AdminSignUpCreatesNoAccount ==
  [][ (signingUp # <<>> /\ signingUp[1].userType = "admin")
        => registered' = registered ]_vars

\* C30 (support): a call of handleSignUp made with userType admin ends with
\* the error that admins cannot sign up.
C30_AdminSignUpEndsWithError ==
  [][ (signingUp # <<>> /\ signingUp[1].userType = "admin" /\ signingUp' = <<>>)
        => loginPage'.error = NoAdminSignUp ]_vars

====
